---- MODULE Spec2Model ----
(***************************************************************************)
(* Verification model of the panorama stitching core (Assignment_1):       *)
(* computeHomographyDLT and ransacHomography (homography.cpp) and the      *)
(* composition loop of stitchImages (stitch.cpp).                          *)
(*                                                                         *)
(* Numbers.  Points have small integer coordinates.  A homography is kept  *)
(* as an integer 3x3 matrix in row-major order, read projectively: after   *)
(* the code's H /= H(2,2) the double matrix is m / m[9].  A matrix with    *)
(* m[9] = 0 becomes, by that division, a matrix of inf/NaN entries: kind   *)
(* "nonfinite".  cv::Mat() is kind "empty".                                *)
(***************************************************************************)
EXTENDS Integers, Sequences, FiniteSets, TLC

\* ------------------------------------------------------------------ bounds
MaxPts == 5
MaxIter == 2

\* The correspondences offered to the estimator: source keypoints are a
\* prefix of PtList, each destination point is its source point moved by one
\* of Offsets (a translation with outliers).  PtList holds collinear triples,
\* so degenerate minimal samples occur.
PtList == << <<0, 0>>, <<1, 0>>, <<0, 1>>, <<1, 1>>, <<2, 0>>, <<3, 2>>, <<5, 1>> >>
Offsets == { <<0, 0>>, <<1, 0>> }
Thresholds == {0, 1}

\* ------------------------------------------------------- homography values
EmptyH == [kind |-> "empty", m |-> << >>]
NonFiniteH == [kind |-> "nonfinite", m |-> << >>]
AssertFail == [kind |-> "assert", m |-> << >>]
FiniteH(mm) == [kind |-> "finite", m |-> mm]

IdentityM == <<1, 0, 0, 0, 1, 0, 0, 0, 1>>
ZeroM == <<0, 0, 0, 0, 0, 0, 0, 0, 0>>
TransM(dx, dy) == <<1, 0, dx, 0, 1, dy, 0, 0, 1>>

Abs(x) == IF x < 0 THEN -x ELSE x

RECURSIVE Gcd(_, _)
Gcd(a, b) == IF b = 0 THEN a ELSE Gcd(b, a % b)

GcdAll(mm) ==
  Gcd(Gcd(Gcd(Gcd(Abs(mm[1]), Abs(mm[2])), Gcd(Abs(mm[3]), Abs(mm[4]))),
          Gcd(Gcd(Abs(mm[5]), Abs(mm[6])), Gcd(Abs(mm[7]), Abs(mm[8])))),
      Abs(mm[9]))

\* The one integer matrix that stands for the double matrix mm / mm[9]
\* (mm[9] # 0): lowest terms, positive denominator.
Canon(mm) ==
  LET g == GcdAll(mm)
      s == IF mm[9] < 0 THEN -1 ELSE 1
  IN  [i \in 1..9 |-> (s * mm[i]) \div g]

Det3(a, b, c) ==
    a[1] * (b[2] * c[3] - b[3] * c[2])
  - b[1] * (a[2] * c[3] - a[3] * c[2])
  + c[1] * (a[2] * b[3] - a[3] * b[2])

MatMul(A, B) ==
  [i \in 1..9 |->
     LET r == (i - 1) \div 3
         c == (i - 1) % 3
     IN  A[3 * r + 1] * B[c + 1] + A[3 * r + 2] * B[c + 4] + A[3 * r + 3] * B[c + 7]]

MatDet(M) ==
    M[1] * (M[5] * M[9] - M[6] * M[8])
  - M[2] * (M[4] * M[9] - M[6] * M[7])
  + M[3] * (M[4] * M[8] - M[5] * M[7])

\* Adjugate: M * Adj(M) = det(M) * I.
Adj(M) ==
  << M[5] * M[9] - M[6] * M[8], M[3] * M[8] - M[2] * M[9], M[2] * M[6] - M[3] * M[5],
     M[6] * M[7] - M[4] * M[9], M[1] * M[9] - M[3] * M[7], M[3] * M[4] - M[1] * M[6],
     M[4] * M[8] - M[5] * M[7], M[2] * M[7] - M[1] * M[8], M[1] * M[5] - M[2] * M[4] >>

Hom(p) == <<p[1], p[2], 1>>

\* H * (x, y, 1)^T
Apply(mm, p) ==
  << mm[1] * p[1] + mm[2] * p[2] + mm[3],
     mm[4] * p[1] + mm[5] * p[2] + mm[6],
     mm[7] * p[1] + mm[8] * p[2] + mm[9] >>

\* -------------------------------------------------- computeHomographyDLT
\* The two rows buildA writes for one correspondence (p -> q), applied to the
\* vector h of the entries of mm: both are 0 iff mm maps p onto q (or onto 0).
buildA(mm, p, q) ==
  LET v == Apply(mm, p)
  IN  << q[1] * v[3] - v[1], q[2] * v[3] - v[2] >>

\* No three of four points on a line.
GeneralPosition(p1, p2, p3, p4) ==
  /\ Det3(Hom(p1), Hom(p2), Hom(p3)) # 0
  /\ Det3(Hom(p4), Hom(p2), Hom(p3)) # 0
  /\ Det3(Hom(p1), Hom(p4), Hom(p3)) # 0
  /\ Det3(Hom(p1), Hom(p2), Hom(p4)) # 0

\* The matrix taking e1, e2, e3, (1,1,1) onto p1, p2, p3, p4 (up to scale).
BasisM(p1, p2, p3, p4) ==
  LET l1 == Det3(Hom(p4), Hom(p2), Hom(p3))
      l2 == Det3(Hom(p1), Hom(p4), Hom(p3))
      l3 == Det3(Hom(p1), Hom(p2), Hom(p4))
  IN  << l1 * p1[1], l2 * p2[1], l3 * p3[1],
         l1 * p1[2], l2 * p2[2], l3 * p3[2],
         l1, l2, l3 >>

\* (mutant) the source points are taken for the canonical frame.
FitFour_Forward(s, d, q) == BasisM(d[q[1]], d[q[2]], d[q[3]], d[q[4]])

\* The null vector of the 8x9 system of four correspondences whose source
\* points are in general position (exact arithmetic; Hartley normalisation
\* changes the conditioning, not the solution).
FitFour(s, d, q) ==
  MatMul(BasisM(d[q[1]], d[q[2]], d[q[3]], d[q[4]]),
         Adj(BasisM(s[q[1]], s[q[2]], s[q[3]], s[q[4]])))

QuadsOf ==
  [n \in 0..(MaxPts + 1) |->
     { q \in (1..n) \X (1..n) \X (1..n) \X (1..n) :
         q[1] < q[2] /\ q[2] < q[3] /\ q[3] < q[4] }]

\* A matrix up to scale: lowest terms, first nonzero entry positive.
ProjCanon(mm) ==
  LET g == GcdAll(mm)
      f == CHOOSE i \in 1..9 : mm[i] # 0 /\ \A j \in 1..(i - 1) : mm[j] = 0
      s == IF mm[f] < 0 THEN -1 ELSE 1
  IN  [i \in 1..9 |-> (s * mm[i]) \div g]

\* The solutions the system A h = 0 determines uniquely: some four of the
\* correspondences pin h down and every row of A vanishes on it.  Empty when
\* the smallest singular value is not 0 or the null space has dimension > 1.
DLTExactSet(s, d) ==
  LET fits == { <<qq, FitFour(s, d, qq)>> :
                  qq \in { q \in QuadsOf[Len(s)] :
                            GeneralPosition(s[q[1]], s[q[2]], s[q[3]], s[q[4]]) } }
  IN  { ProjCanon(f[2]) :
          f \in { g \in fits :
                    /\ g[2] # ZeroM
                    /\ \A i \in 1..Len(s) : buildA(g[2], s[i], d[i]) = <<0, 0>> } }

\* H /= H.at<double>(2, 2)
DivideByH22(mm) == IF mm[9] = 0 THEN NonFiniteH ELSE FiniteH(Canon(mm))

\* What cv::SVD hands back when the system does not determine h (a degenerate
\* sample, or a least-squares fit of inconsistent correspondences): some
\* vector, a function of the input alone.  svdMemo records the value chosen
\* for each input met so far.
DegenerateFits == { NonFiniteH, FiniteH(IdentityM) }

DLTKey(s, d) == { <<s[i], d[i]>> : i \in 1..Len(s) }

\* (mutant) fewer than 4 correspondences give an empty matrix, no exception.
computeHomographyDLT_EmptyBelowFour(s, d, memo) ==
  IF Len(s) # Len(d) THEN {AssertFail}
  ELSE IF Len(s) < 4 THEN {EmptyH}
  ELSE LET ex == DLTExactSet(s, d)
       IN  IF ex # {} THEN { DivideByH22(CHOOSE h \in ex : TRUE) }
           ELSE IF DLTKey(s, d) \in DOMAIN memo THEN { memo[DLTKey(s, d)] }
           ELSE DegenerateFits

\* The values a call computeHomographyDLT(s, d) can return (AssertFail: a
\* CV_Assert failed and cv::Exception is thrown).
computeHomographyDLT(s, d, memo) ==
  IF Len(s) # Len(d) THEN {AssertFail}
  ELSE IF Len(s) < 4 THEN {AssertFail}
  ELSE LET ex == DLTExactSet(s, d)
       IN  IF ex # {} THEN { DivideByH22(CHOOSE h \in ex : TRUE) }
           ELSE IF DLTKey(s, d) \in DOMAIN memo THEN { memo[DLTKey(s, d)] }
           ELSE DegenerateFits

SvdRecord(memo, s, d, H) ==
  IF \/ H.kind = "assert"
     \/ DLTKey(s, d) \in DOMAIN memo
     \/ H \notin DegenerateFits
     \/ DLTExactSet(s, d) # {}
  THEN memo
  ELSE memo @@ (DLTKey(s, d) :> H)

\* reprojError(H, p, q) < t.  A non-finite H, or a point sent to infinity,
\* gives a NaN or infinite error, which is not below any threshold.
reprojErrorBelow(H, p, q, t) ==
  /\ H.kind = "finite"
  /\ t > 0
  /\ LET v == Apply(H.m, p)
         ex == v[1] - q[1] * v[3]
         ey == v[2] - q[2] * v[3]
     IN  /\ v[3] # 0
         /\ ex * ex + ey * ey < t * t * v[3] * v[3]

\* ------------------------------------------------------ ransacHomography
VARIABLES srcPts, dstPts, iterations, thresh,  \* the call's arguments
          inlierMask,                          \* the out-parameter
          rpc,                                 \* position in the function
          it, used, k, idx, bestInliers, bestH,\* its locals
          retH,                                \* the value returned
          svdMemo,
          firstWith,                           \* history: inlier count |-> the first candidate that had it
          tieSeen                              \* history: a candidate other than bestH equalled bestInliers

ransacVars == <<srcPts, dstPts, iterations, thresh, inlierMask, rpc, it, used, k,
                idx, bestInliers, bestH, retH, svdMemo, firstWith, tieSeen>>

\* stitchImages
VARIABLES imgs, blendMode, ransacIter,         \* the call's arguments
          pc,                                  \* position in the function
          img_i, pano,                         \* the loop index i and the panorama
          kpsA, kpsB, good,                    \* sizes of a.kps, b.kps and good
          H_p2n, H_n2p, in_p2n, in_n2p,        \* the two estimates and their inlier counts
          H_new_to_pano,
          tx, ty, warped, canvas,
          ret,                                 \* the value returned
          panoAtStart,                         \* history: pano when the current image was taken up
          log                                  \* history: the stages passed, each with its image index

stitchVars == <<imgs, blendMode, ransacIter, pc, img_i, pano, kpsA, kpsB, good,
                H_p2n, H_n2p, in_p2n, in_n2p, H_new_to_pano, tx, ty, warped, canvas,
                ret, panoAtStart, log>>

\* the generator of ransacHomography and the calls made on the same arguments
VARIABLES gen,                                 \* which generator the build's std::mt19937 / uniform_int_distribution is
          rngSeed, rngPos,                     \* the state of rng: its seed and the draws made since seeding
          calls,                               \* calls completed before the current one
          prevH, prevMask                      \* history: what the previous call returned

rngVars == <<gen, rngSeed, rngPos, calls, prevH, prevMask>>

\* the matching functions
VARIABLES detector, descA, descB, ratio, kArg, \* the arguments
          distType, knn, goodM,                \* distTypeFor, bruteForceMatchKNN, ratioTest results
          nn,                                  \* bruteForceMatch result
          dres,                                \* euclideanDistance / hammingDistance result
          mpc                                  \* position

matchVars == <<detector, descA, descB, ratio, kArg, distType, knn, goodM, nn, dres, mpc>>

\* One call of a function on images: blendOverlay, blendFeather,
\* warpPerspectiveCustom, or the canvas-growth step of stitchImages.
VARIABLES opc,                    \* the position of the call
          imgA, imgB, imgM,       \* the images and the mask handed in
          opH, opW, opHt,         \* the homography and the requested size
          imgOut, imgOut2,        \* what the call (and the swapped call) returned
          grow                    \* the offset and canvas size computed
opVars == <<opc, imgA, imgB, imgM, opH, opW, opHt, imgOut, imgOut2, grow>>

\* PerformanceTracker: dataset_ (key -> PerformanceStats), and the number of
\* pushSample calls made.
VARIABLES dataset, pushed
perfVars == <<dataset, pushed>>

vars == <<ransacVars, stitchVars, rngVars, matchVars, opVars, perfVars>>

\* cv::Mat(): a descriptor matrix without rows.
EmptyDesc == [type |-> "CV_32F", cols |-> 0, rows |-> << >>]

RngIdle ==
  /\ gen = "none" /\ rngSeed = 0 /\ rngPos = 0 /\ calls = 0
  /\ prevH = EmptyH /\ prevMask = << >>

MatchIdle ==
  /\ detector = "SIFT" /\ descA = EmptyDesc /\ descB = EmptyDesc /\ ratio = 0
  /\ kArg = 0
  /\ distType = "L2" /\ knn = << >> /\ goodM = << >> /\ nn = << >>
  /\ dres = 0 /\ mpc = "idle"

Prefix(n) == [i \in 1..n |-> PtList[i]]

\* Correspondence lists of equal length (the last three correspondences are free,
\* the ones before them agree with the translation by (0,0)), and lists whose
\* lengths differ.
Scenes ==
  UNION { { [src |-> Prefix(n),
             dst |-> [i \in 1..n |-> << PtList[i][1] + o[i][1], PtList[i][2] + o[i][2] >>]] :
              o \in { oo \in [1..n -> Offsets] :
                        \A i \in 1..n : i <= n - 3 => oo[i] = <<0, 0>> } } : n \in 0..MaxPts }
  \cup { [src |-> Prefix(n), dst |-> Prefix(n - 1)] : n \in 1..MaxPts }

RansacLocalsInit ==
  /\ inlierMask = << >>
  /\ it = 0 /\ used = {} /\ k = 0 /\ idx = << >>
  /\ bestInliers = -1 /\ bestH = EmptyH /\ retH = EmptyH
  /\ svdMemo = << >>
  /\ firstWith = << >>
  /\ tieSeen = FALSE

RansacIdle ==
  /\ srcPts = << >> /\ dstPts = << >> /\ iterations = 0 /\ thresh = 0
  /\ rpc = "idle"
  /\ RansacLocalsInit

\* cv::Mat(): no pixels.
EmptyImg == [w |-> 0, h |-> 0, px |-> << >>]

NoGrowth == [tx |-> 0, ty |-> 0, outW |-> 0, outH |-> 0]

OpIdle ==
  /\ opc = "idle"
  /\ imgA = EmptyImg /\ imgB = EmptyImg /\ imgM = EmptyImg
  /\ opH = EmptyH /\ opW = 0 /\ opHt = 0
  /\ imgOut = EmptyImg /\ imgOut2 = EmptyImg
  /\ grow = NoGrowth

PerfIdle == dataset = << >> /\ pushed = 0

StitchIdle ==
  /\ imgs = << >> /\ blendMode = "OVERLAY" /\ ransacIter = 0
  /\ pc = "idle" /\ img_i = 0 /\ pano = EmptyImg
  /\ kpsA = 0 /\ kpsB = 0 /\ good = 0
  /\ H_p2n = EmptyH /\ H_n2p = EmptyH /\ in_p2n = 0 /\ in_n2p = 0
  /\ H_new_to_pano = EmptyH
  /\ tx = 0 /\ ty = 0 /\ warped = EmptyImg /\ canvas = EmptyImg
  /\ ret = EmptyImg /\ panoAtStart = EmptyImg /\ log = << >>

InitRansac ==
  /\ StitchIdle /\ RngIdle /\ MatchIdle /\ OpIdle /\ PerfIdle
  /\ \E sc \in Scenes : srcPts = sc.src /\ dstPts = sc.dst
  /\ iterations \in 0..MaxIter
  /\ thresh \in Thresholds
  /\ rpc = "entry"
  /\ RansacLocalsInit

\* (mutant) the mask is left as the caller passed it.
MaskReset_Skipped(n) == << >>

\* line 95: inlierMask.assign(n, 0)
MaskReset(n) == [i \in 1..n |-> FALSE]

\* (mutant) a draw already in the sample is taken again.
Fresh_Always(r, u) == TRUE

\* line 111: used.insert(r).second
Fresh(r, u) == r \notin u

\* (mutant) a later candidate with an equal count replaces the kept one.
Better_OrEqual(inliers, best) == inliers >= best

\* line 123: if (inliers > bestInliers)
Better(inliers, best) == inliers > best

\* (mutant) every correspondence is marked.
FinalMask_AllMarked(H, s, d, t) == [i \in 1..Len(s) |-> TRUE]

\* lines 132-135
FinalMask(H, s, d, t) == [i \in 1..Len(s) |-> reprojErrorBelow(H, s[i], d[i], t)]

CountInliers(H, s, d, t) ==
  Cardinality({ i \in 1..Len(s) : reprojErrorBelow(H, s[i], d[i], t) })

\* lines 93-102: the assertion, the mask reset, the n < 4 exit, the locals.
RansacEntry ==
  /\ rpc = "entry"
  /\ IF Len(srcPts) # Len(dstPts)
     THEN /\ rpc' = "assert"
          /\ UNCHANGED <<inlierMask, retH, bestInliers, bestH, it>>
     ELSE /\ inlierMask' = MaskReset(Len(srcPts))
          /\ IF Len(srcPts) < 4
             THEN /\ retH' = EmptyH
                  /\ rpc' = "done"
                  /\ UNCHANGED <<bestInliers, bestH, it>>
             ELSE /\ bestInliers' = -1
                  /\ bestH' = EmptyH
                  /\ it' = 0
                  /\ rpc' = "loop"
                  /\ UNCHANGED retH
  /\ UNCHANGED <<srcPts, dstPts, iterations, thresh, used, k, idx, svdMemo, firstWith, tieSeen>>

\* line 105 (loop test) and lines 107-108.
RansacLoop ==
  /\ rpc = "loop"
  /\ IF it < iterations
     THEN /\ used' = {} /\ k' = 0 /\ idx' = << >> /\ rpc' = "sample"
     ELSE /\ rpc' = "after" /\ UNCHANGED <<used, k, idx>>
  /\ UNCHANGED <<srcPts, dstPts, iterations, thresh, inlierMask, it,
                 bestInliers, bestH, retH, svdMemo, firstWith, tieSeen>>

\* lines 109-114: one draw r = uni(rng) of the rejection loop.
RansacDraw(r) ==
  /\ rpc = "sample"
  /\ k < 4
  /\ IF Fresh(r, used)
     THEN /\ used' = used \cup {r}
          /\ idx' = Append(idx, r)
          /\ k' = k + 1
          /\ rpc' = IF k + 1 < 4 THEN "sample" ELSE "fit"
     ELSE UNCHANGED <<used, idx, k, rpc>>
  /\ UNCHANGED <<srcPts, dstPts, iterations, thresh, inlierMask, it,
                 bestInliers, bestH, retH, svdMemo, firstWith, tieSeen>>

\* lines 115-126: fit the sample, count inliers over all n, keep the best.
\* The iteration ends here: used and k go out of scope, and idx is kept as
\* the entries written in the current iteration (lines 109-114 write all four
\* before line 116 reads any, so what an iteration leaves in it is never read).
RansacFit ==
  /\ rpc = "fit"
  /\ LET s == [t \in 1..4 |-> srcPts[idx[t] + 1]]
         d == [t \in 1..4 |-> dstPts[idx[t] + 1]]
     IN  \E H \in computeHomographyDLT(s, d, svdMemo) :
           IF H.kind = "assert"
           THEN /\ rpc' = "assert"
                /\ UNCHANGED <<bestInliers, bestH, it, svdMemo, firstWith, tieSeen, used, k, idx>>
           ELSE LET inliers == CountInliers(H, srcPts, dstPts, thresh)
                IN  /\ svdMemo' = SvdRecord(svdMemo, s, d, H)
                    /\ firstWith' = IF inliers \in DOMAIN firstWith THEN firstWith
                                    ELSE firstWith @@ (inliers :> H)
                    /\ tieSeen' = (tieSeen \/ (inliers = bestInliers /\ H # bestH))
                    /\ IF Better(inliers, bestInliers)
                       THEN bestInliers' = inliers /\ bestH' = H
                       ELSE UNCHANGED <<bestInliers, bestH>>
                    /\ it' = it + 1
                    /\ used' = {} /\ k' = 0 /\ idx' = << >>
                    /\ rpc' = "loop"
  /\ UNCHANGED <<srcPts, dstPts, iterations, thresh, inlierMask, retH>>

\* lines 129-135: no candidate: return; else the final mask under bestH.
RansacMask ==
  /\ rpc = "after"
  /\ IF bestH.kind = "empty"
     THEN /\ retH' = bestH /\ rpc' = "done" /\ UNCHANGED inlierMask
     ELSE /\ inlierMask' = FinalMask(bestH, srcPts, dstPts, thresh)
          /\ rpc' = "refit"
          /\ UNCHANGED retH
  /\ UNCHANGED <<srcPts, dstPts, iterations, thresh, it, used, k, idx,
                 bestInliers, bestH, svdMemo, firstWith, tieSeen>>

Marked(mask) == { i \in 1..Len(mask) : mask[i] }

RECURSIVE SelectMarked(_, _, _)
SelectMarked(pts, mask, i) ==
  IF i > Len(pts) THEN << >>
  ELSE IF mask[i] THEN <<pts[i]>> \o SelectMarked(pts, mask, i + 1)
  ELSE SelectMarked(pts, mask, i + 1)

\* lines 137-146: refit over the marked correspondences when there are >= 4.
RansacRefit ==
  /\ rpc = "refit"
  /\ LET sIn == SelectMarked(srcPts, inlierMask, 1)
         dIn == SelectMarked(dstPts, inlierMask, 1)
     IN  IF Len(sIn) >= 4
         THEN \E H \in computeHomographyDLT(sIn, dIn, svdMemo) :
                IF H.kind = "assert"
                THEN /\ rpc' = "assert" /\ UNCHANGED <<bestH, retH, svdMemo>>
                ELSE /\ bestH' = H /\ retH' = H /\ rpc' = "done"
                     /\ svdMemo' = SvdRecord(svdMemo, sIn, dIn, H)
         ELSE /\ retH' = bestH /\ rpc' = "done" /\ UNCHANGED <<bestH, svdMemo>>
  /\ UNCHANGED <<srcPts, dstPts, iterations, thresh, inlierMask, it, used, k, idx,
                 bestInliers, firstWith, tieSeen>>

NextRansac ==
  \/ RansacEntry /\ UNCHANGED <<stitchVars, rngVars, matchVars, opVars, perfVars>>
  \/ RansacLoop /\ UNCHANGED <<stitchVars, rngVars, matchVars, opVars, perfVars>>
  \/ \E r \in 0..(Len(srcPts) - 1) : RansacDraw(r) /\ UNCHANGED <<stitchVars, rngVars, matchVars, opVars, perfVars>>
  \/ RansacFit /\ UNCHANGED <<stitchVars, rngVars, matchVars, opVars, perfVars>>
  \/ RansacMask /\ UNCHANGED <<stitchVars, rngVars, matchVars, opVars, perfVars>>
  \/ RansacRefit /\ UNCHANGED <<stitchVars, rngVars, matchVars, opVars, perfVars>>

SpecRansac == InitRansac /\ [][NextRansac]_vars

\* ------------------------------- ransacHomography called again and again
Seed == 42
MaxCalls == 2

\* std::mt19937 and std::uniform_int_distribution are functions of the seed
\* and of the number of draws made; which function is the build's matter.
Generators == {"step", "stride", "pairs"}

\* lines 99, 110: the value uni(rng) gives as draw number pos after seeding.
uni(g, seed, pos, n) ==
  CASE g = "step" -> (seed + pos) % n
    [] g = "stride" -> (seed + 13 * pos) % n
    [] OTHER -> (seed + pos \div 2) % n

\* (mutant) rng is one static generator: the draws of earlier calls count.
Seeded_Static(pos) == pos

\* line 98: rng is constructed in the call: no draw has been made from it.
Seeded(pos) == 0

InitDet ==
  /\ StitchIdle /\ MatchIdle /\ OpIdle /\ PerfIdle
  /\ \E sc \in Scenes : srcPts = sc.src /\ dstPts = sc.dst
  /\ iterations \in 0..MaxIter
  /\ thresh \in Thresholds
  /\ rpc = "entry"
  /\ RansacLocalsInit
  /\ gen \in Generators
  /\ rngSeed = 0 /\ rngPos = 0 /\ calls = 0
  /\ prevH = EmptyH /\ prevMask = << >>

\* lines 93-102, line 98 included.
RansacEntrySeeded ==
  /\ RansacEntry
  /\ IF rpc' = "loop"
     THEN rngSeed' = Seed /\ rngPos' = Seeded(rngPos)
     ELSE UNCHANGED <<rngSeed, rngPos>>
  /\ UNCHANGED <<gen, calls, prevH, prevMask>>

\* lines 109-114 with r = uni(rng).
RansacDrawSeeded ==
  /\ RansacDraw(uni(gen, rngSeed, rngPos, Len(srcPts)))
  /\ rngPos' = rngPos + 1
  /\ UNCHANGED <<gen, rngSeed, calls, prevH, prevMask>>

\* The caller calls again with the same arguments and the same mask vector.
\* The locals of the call that returned are gone; computeHomographyDLT is
\* the same function as before.
RansacCallAgain ==
  /\ rpc = "done"
  /\ calls < MaxCalls
  /\ prevH' = retH
  /\ prevMask' = inlierMask
  /\ calls' = calls + 1
  /\ rpc' = "entry"
  /\ it' = 0 /\ used' = {} /\ k' = 0 /\ idx' = << >>
  /\ bestInliers' = -1 /\ bestH' = EmptyH /\ retH' = EmptyH
  /\ firstWith' = << >> /\ tieSeen' = FALSE
  /\ UNCHANGED <<srcPts, dstPts, iterations, thresh, inlierMask, svdMemo,
                 gen, rngSeed, rngPos>>

NextDet ==
  \/ RansacEntrySeeded /\ UNCHANGED <<stitchVars, matchVars, opVars, perfVars>>
  \/ RansacLoop /\ UNCHANGED <<stitchVars, rngVars, matchVars, opVars, perfVars>>
  \/ RansacDrawSeeded /\ UNCHANGED <<stitchVars, matchVars, opVars, perfVars>>
  \/ RansacFit /\ UNCHANGED <<stitchVars, rngVars, matchVars, opVars, perfVars>>
  \/ RansacMask /\ UNCHANGED <<stitchVars, rngVars, matchVars, opVars, perfVars>>
  \/ RansacRefit /\ UNCHANGED <<stitchVars, rngVars, matchVars, opVars, perfVars>>
  \/ RansacCallAgain /\ UNCHANGED <<stitchVars, matchVars, opVars, perfVars>>

SpecDet == InitDet /\ [][NextDet]_vars

\* ------------------------------------------------------------ matching
\* A descriptor matrix is [type, cols, rows], rows a sequence of rows of cols
\* elements.  A distance is a decimal <<m, e>>, the number m * 10^e.
MaxDesc == 3

Detectors == {"SIFT", "ORB", "AKAZE"}

\* stitch.cpp lines 85-87: the element type of the descriptors compute()
\* gives: CV_32F vectors for cv::SIFT, CV_8U bit strings for cv::ORB and for
\* cv::AKAZE::create(), whose default descriptor is DESCRIPTOR_MLDB.
DescriptorType(det) == IF det = "SIFT" THEN "CV_32F" ELSE "CV_8U"

\* stitch.cpp lines 42-44
distTypeFor(d) == IF d = "ORB" THEN "HAMMING" ELSE "L2"

\* cv::Mat::empty()
DescEmpty(desc) == Len(desc.rows) = 0 \/ desc.cols = 0

\* desc.row(i), i from 0
DescRow(desc, i) == [type |-> desc.type, cols |-> desc.cols, rows |-> <<desc.rows[i + 1]>>]

RECURSIVE popcount(_)
popcount(x) == IF x = 0 THEN 0 ELSE (x % 2) + popcount(x \div 2)

RECURSIVE Xor(_, _)
Xor(a, b) ==
  IF a = 0 /\ b = 0 THEN 0
  ELSE ((a + b) % 2) + 2 * Xor(a \div 2, b \div 2)

RECURSIVE squaredL2(_, _, _)
squaredL2(a, b, dim) ==
  IF dim = 0 THEN 0
  ELSE (a[dim] - b[dim]) * (a[dim] - b[dim]) + squaredL2(a, b, dim - 1)

\* std::sqrt on the sums the descriptor rows of the model give: squares.
Sqrt(s) == CHOOSE r \in 0..s : r * r = s

Asserted == [ok |-> FALSE, d |-> 0]
Value(v) == [ok |-> TRUE, d |-> v]

\* (mutant) rows of different shape are compared over the shorter one.
euclideanDistance_Lenient(a, b) ==
  LET n == IF a.cols < b.cols THEN a.cols ELSE b.cols
  IN  Value(Sqrt(squaredL2(a.rows[1], b.rows[1], n)))

\* matching.cpp lines 18-28
euclideanDistance(a, b) ==
  IF ~(a.cols = b.cols /\ a.type = b.type) THEN Asserted
  ELSE IF ~(Len(a.rows) = 1 /\ Len(b.rows) = 1) THEN Asserted
  ELSE Value(Sqrt(squaredL2(a.rows[1], b.rows[1], a.cols)))

RECURSIVE HammingSum(_, _, _)
HammingSum(a, b, n) ==
  IF n = 0 THEN 0
  ELSE popcount(Xor(a[n], b[n])) + HammingSum(a, b, n - 1)

\* matching.cpp lines 34-50
hammingDistance(a, b) ==
  IF ~(a.cols = b.cols /\ a.type = b.type) THEN Asserted
  ELSE IF ~(Len(a.rows) = 1 /\ Len(b.rows) = 1) THEN Asserted
  ELSE IF a.type # "CV_8U" THEN Asserted
  ELSE Value(HammingSum(a.rows[1], b.rows[1], a.cols))

\* lines 62-67, 86-91: the distance of one pair of rows.
RowDistance(desc1, desc2, dt, i, j) ==
  IF dt = "L2" THEN euclideanDistance(DescRow(desc1, i), DescRow(desc2, j))
  ELSE hammingDistance(DescRow(desc1, i), DescRow(desc2, j))

\* std::numeric_limits<double>::infinity()
Inf == -1

Match(q, tr, d) == [queryIdx |-> q, trainIdx |-> tr, dist |-> <<d, 0>>]

\* (mutant) a later row at the same distance replaces the kept one.
Closer_OrEqual(d, best) == best = Inf \/ d <= best

\* lines 68, 92, 95: d < best, best being infinity or a distance.
Closer(d, best) == best = Inf \/ d < best

\* lines 61-69: the scan of row i of desc1 over the rows j.. of desc2.
RECURSIVE NnScan(_, _, _, _, _, _)
NnScan(desc1, desc2, dt, i, j, st) ==
  IF j >= Len(desc2.rows) THEN st
  ELSE LET r == RowDistance(desc1, desc2, dt, i, j)
       IN  IF ~r.ok THEN [st EXCEPT !.ok = FALSE]
           ELSE NnScan(desc1, desc2, dt, i, j + 1,
                       IF Closer(r.d, st.best)
                       THEN [st EXCEPT !.best = r.d, !.bestIdx = j]
                       ELSE st)

\* lines 58-71: the rows i.. of desc1; a failed assertion ends the call.
RECURSIVE NnRows(_, _, _, _)
NnRows(desc1, desc2, dt, i) ==
  IF i >= Len(desc1.rows) THEN [ok |-> TRUE, val |-> << >>]
  ELSE LET st == NnScan(desc1, desc2, dt, i, 0,
                        [ok |-> TRUE, best |-> Inf, bestIdx |-> -1])
           rest == NnRows(desc1, desc2, dt, i + 1)
       IN  IF ~st.ok \/ ~rest.ok THEN [ok |-> FALSE, val |-> << >>]
           ELSE [ok |-> TRUE,
                 val |-> (IF st.bestIdx >= 0
                          THEN <<Match(i, st.bestIdx, st.best)>>
                          ELSE << >>) \o rest.val]

\* matching.cpp lines 52-73
bruteForceMatch(desc1, desc2, dt) ==
  IF DescEmpty(desc1) \/ DescEmpty(desc2) THEN [ok |-> TRUE, val |-> << >>]
  ELSE NnRows(desc1, desc2, dt, 0)

\* (mutant) a new best does not hand the old best down to second.
KnnStep_NoDemote(st, d, j) ==
  IF Closer(d, st.best)
  THEN [st EXCEPT !.best = d, !.bestIdx = j]
  ELSE IF Closer(d, st.second)
  THEN [st EXCEPT !.second = d, !.secondIdx = j]
  ELSE st

\* lines 92-97
KnnStep(st, d, j) ==
  IF Closer(d, st.best)
  THEN [st EXCEPT !.second = st.best, !.secondIdx = st.bestIdx,
                  !.best = d, !.bestIdx = j]
  ELSE IF Closer(d, st.second)
  THEN [st EXCEPT !.second = d, !.secondIdx = j]
  ELSE st

\* lines 85-98
RECURSIVE KnnScan(_, _, _, _, _, _)
KnnScan(desc1, desc2, dt, i, j, st) ==
  IF j >= Len(desc2.rows) THEN st
  ELSE LET r == RowDistance(desc1, desc2, dt, i, j)
       IN  IF ~r.ok THEN [st EXCEPT !.ok = FALSE]
           ELSE KnnScan(desc1, desc2, dt, i, j + 1, KnnStep(st, r.d, j))

\* lines 81-102
RECURSIVE KnnRows(_, _, _, _)
KnnRows(desc1, desc2, dt, i) ==
  IF i >= Len(desc1.rows) THEN [ok |-> TRUE, val |-> << >>]
  ELSE LET st == KnnScan(desc1, desc2, dt, i, 0,
                         [ok |-> TRUE, best |-> Inf, bestIdx |-> -1,
                          second |-> Inf, secondIdx |-> -1])
           rest == KnnRows(desc1, desc2, dt, i + 1)
       IN  IF ~st.ok \/ ~rest.ok THEN [ok |-> FALSE, val |-> << >>]
           ELSE [ok |-> TRUE,
                 val |-> (IF st.bestIdx >= 0 /\ st.secondIdx >= 0
                          THEN << <<Match(i, st.bestIdx, st.best),
                                    Match(i, st.secondIdx, st.second)>> >>
                          ELSE << >>) \o rest.val]

\* matching.cpp lines 75-104
bruteForceMatchKNN(desc1, desc2, dt, kk) ==
  IF DescEmpty(desc1) \/ DescEmpty(desc2) \/ kk < 2 THEN [ok |-> TRUE, val |-> << >>]
  ELSE KnnRows(desc1, desc2, dt, 0)

RECURSIVE Pow10(_)
Pow10(e) == IF e = 0 THEN 1 ELSE 10 * Pow10(e - 1)

\* line 111: d <= 1e-12, for a decimal of exponent -13..0.
LeqTiny(d) ==
  IF d[1] = 0 THEN TRUE
  ELSE IF d[2] + 13 >= 2 THEN FALSE
  ELSE d[1] * Pow10(d[2] + 13) <= 10

\* The sign of d1 / d2 - r / 100 for d2 > 0: mantissas below 1000 and r in
\* 0..100 keep the products in range.
RatioCmp(d1, d2, r) ==
  LET de == d1[2] - d2[2]
      Sign(x, y) == IF x < y THEN -1 ELSE IF x = y THEN 0 ELSE 1
  IN  IF de > 4 THEN (IF d1[1] = 0 THEN Sign(0, r * d2[1]) ELSE 1)
      ELSE IF de < -4 THEN (IF r * d2[1] = 0 THEN Sign(d1[1], 0) ELSE -1)
      ELSE IF de >= 0 THEN Sign(d1[1] * Pow10(de) * 100, r * d2[1])
      ELSE Sign(d1[1] * 100, r * d2[1] * Pow10(-de))

\* (mutant) a pair at the ratio exactly is kept.
RatioBelow_OrEqual(d1, d2, r) == RatioCmp(d1, d2, r) <= 0

\* line 112: m1.dist / m2.dist < ratio
RatioBelow(d1, d2, r) == RatioCmp(d1, d2, r) < 0

\* matching.cpp lines 106-115, from pair i on.
RECURSIVE ratioTestFrom(_, _, _)
ratioTestFrom(pairs, r, i) ==
  IF i > Len(pairs) THEN << >>
  ELSE LET m1 == pairs[i][1]
           m2 == pairs[i][2]
       IN  IF LeqTiny(m2.dist) THEN ratioTestFrom(pairs, r, i + 1)
           ELSE IF RatioBelow(m1.dist, m2.dist, r)
           THEN <<m1>> \o ratioTestFrom(pairs, r, i + 1)
           ELSE ratioTestFrom(pairs, r, i + 1)

ratioTest(pairs, r) == ratioTestFrom(pairs, r, 1)

\* Descriptor rows whose pairwise Euclidean distances are whole numbers.
DescRows == { <<0, 0>>, <<3, 4>>, <<3, 0>> }

DescSets(et) ==
  { [type |-> et, cols |-> 2, rows |-> rs] :
      rs \in UNION { [1..n -> DescRows] : n \in 0..MaxDesc } }

ElemTypes == {"CV_32F", "CV_8U"}
DistTypes == {"L2", "HAMMING"}

\* ratio, in hundredths
Ratios == {60, 75}

\* Distances of the pairs handed to ratioTest: 0, 5e-13, 1e-12, 2e-12, 3.0,
\* 4.0, 4.01.
DistVals == { <<0, 0>>, <<5, -13>>, <<10, -13>>, <<20, -13>>,
              <<300, -2>>, <<400, -2>>, <<401, -2>> }

KnnList(ds) ==
  [i \in 1..Len(ds) |->
     << [queryIdx |-> i - 1, trainIdx |-> 0, dist |-> ds[i][1]],
        [queryIdx |-> i - 1, trainIdx |-> 1, dist |-> ds[i][2]] >>]

MatchLocalsInit ==
  /\ goodM = << >> /\ nn = << >> /\ dres = 0

\* One call: the matching stage of stitchImages, bruteForceMatchKNN,
\* bruteForceMatch or ratioTest.
InitMatch ==
  /\ StitchIdle /\ RansacIdle /\ RngIdle /\ OpIdle /\ PerfIdle
  /\ MatchLocalsInit
  /\ \/ /\ mpc = "stage"
        /\ detector \in Detectors
        /\ descA \in DescSets(DescriptorType(detector))
        /\ descB \in DescSets(DescriptorType(detector))
        /\ ratio \in Ratios
        /\ kArg = 2 /\ distType = "L2" /\ knn = << >>
     \/ /\ mpc \in {"knn", "nn"}
        /\ detector = "SIFT"
        /\ \E et \in ElemTypes : descA \in DescSets(et) /\ descB \in DescSets(et)
        /\ distType \in DistTypes
        /\ kArg \in IF mpc = "knn" THEN {1, 2} ELSE {0}
        /\ ratio = 0 /\ knn = << >>
     \/ /\ mpc = "ratio"
        /\ detector = "SIFT" /\ descA = EmptyDesc /\ descB = EmptyDesc
        /\ distType = "L2" /\ kArg = 0
        /\ ratio \in Ratios
        /\ \E n \in 0..(MaxDesc - 1) :
             \E ds \in [1..n -> DistVals \X DistVals] : knn = KnnList(ds)

\* stitch.cpp lines 132-138: distTypeFor, bruteForceMatchKNN(.., 2), ratioTest.
StageMatch ==
  /\ mpc = "stage"
  /\ distType' = distTypeFor(detector)
  /\ LET res == bruteForceMatchKNN(descA, descB, distTypeFor(detector), kArg)
     IN  IF res.ok
         THEN /\ knn' = res.val
              /\ goodM' = ratioTest(res.val, ratio)
              /\ mpc' = "stage_done"
         ELSE /\ mpc' = "assert"
              /\ UNCHANGED <<knn, goodM>>
  /\ UNCHANGED <<detector, descA, descB, ratio, kArg, nn, dres>>

\* A call bruteForceMatchKNN(descA, descB, distType, kArg).
KnnCall ==
  /\ mpc = "knn"
  /\ LET res == bruteForceMatchKNN(descA, descB, distType, kArg)
     IN  IF res.ok
         THEN knn' = res.val /\ mpc' = "knn_done"
         ELSE mpc' = "assert" /\ UNCHANGED knn
  /\ UNCHANGED <<detector, descA, descB, ratio, kArg, distType, goodM, nn, dres>>

\* A call bruteForceMatch(descA, descB, distType).
NnCall ==
  /\ mpc = "nn"
  /\ LET res == bruteForceMatch(descA, descB, distType)
     IN  IF res.ok
         THEN nn' = res.val /\ mpc' = "nn_done"
         ELSE mpc' = "assert" /\ UNCHANGED nn
  /\ UNCHANGED <<detector, descA, descB, ratio, kArg, distType, knn, goodM, dres>>

\* A call ratioTest(knn, ratio).
RatioCall ==
  /\ mpc = "ratio"
  /\ goodM' = ratioTest(knn, ratio)
  /\ mpc' = "ratio_done"
  /\ UNCHANGED <<detector, descA, descB, ratio, kArg, distType, knn, nn, dres>>

NextMatch ==
  \/ StageMatch /\ UNCHANGED <<ransacVars, stitchVars, rngVars, opVars, perfVars>>
  \/ KnnCall /\ UNCHANGED <<ransacVars, stitchVars, rngVars, opVars, perfVars>>
  \/ NnCall /\ UNCHANGED <<ransacVars, stitchVars, rngVars, opVars, perfVars>>
  \/ RatioCall /\ UNCHANGED <<ransacVars, stitchVars, rngVars, opVars, perfVars>>

SpecMatch == InitMatch /\ [][NextMatch]_vars

\* ------------------------------------------------------------- images
\* An image is grey: one 8-bit value per pixel stands for its three equal
\* channels, so its luminance (cv::COLOR_BGR2GRAY) is that value.
MaxImgs == 3
MaxCorr == 4

Row(vals) ==
  [w |-> Len(vals), h |-> 1,
   px |-> [xy \in (0..(Len(vals) - 1)) \X {0} |-> vals[xy[1] + 1]]]

\* The input images: one of luminance 2 throughout, one whose left column
\* has luminance 1.
Images == { Row(<<2, 2>>), Row(<<1, 2>>) }

Pixels(w, h) == (0..(w - 1)) \X (0..(h - 1))

\* rationals <<numerator, denominator>>, denominator > 0
\* n / d (d > 0) in lowest terms
Rat(n, d) == LET g == Gcd(Abs(n), d) IN <<n \div g, d \div g>>
RatLt(a, b) == a[1] * b[2] < b[1] * a[2]
RatMin(a, b) == IF RatLt(b, a) THEN b ELSE a

\* (mutant) the running maximum never moves.
RatMax_First(a, b) == a

RatMax(a, b) == IF RatLt(a, b) THEN b ELSE a

Floor(a) == a[1] \div a[2]
Ceil(a) == -((-a[1]) \div a[2])

\* cv::Mat::inv() of a 3x3 double matrix, up to the scale of the result:
\* a singular matrix gives the zero matrix.
MatInvM(M) == IF MatDet(M) = 0 THEN ZeroM ELSE Adj(M)

\* H.inv() on a homography value.
MatInv(H) ==
  IF H.kind = "finite" THEN FiniteH(MatInvM(H.m))
  ELSE IF H.kind = "nonfinite" THEN NonFiniteH
  ELSE AssertFail

\* cv::perspectiveTransform on one point: (X/w, Y/w), and (0, 0) when w = 0.
perspectiveTransform(p, M) ==
  LET v == Apply(M, p)
  IN  IF v[3] = 0 THEN << <<0, 1>>, <<0, 1>> >>
      ELSE IF v[3] > 0 THEN << Rat(v[1], v[3]), Rat(v[2], v[3]) >>
      ELSE << Rat(-v[1], -v[3]), Rat(-v[2], -v[3]) >>

\* warp.cpp, inBounds
inBounds(x, y, w, h) == x >= 0 /\ x < w /\ y >= 0 /\ y < h

\* cv::saturate_cast<uchar>(float) of n / dd (n >= 0): nearest, ties to even.
SaturateRound(n, dd) ==
  LET q == n \div dd
      r == n % dd
      v == IF 2 * r < dd THEN q
           ELSE IF 2 * r > dd THEN q + 1
           ELSE IF q % 2 = 0 THEN q ELSE q + 1
  IN  IF v > 255 THEN 255 ELSE v

\* (mutant) the sample is the pixel right below the point.
bilinearAt_NextPixel(src, nx, ny, d) ==
  LET x1 == nx \div d + 1
      y1 == ny \div d + 1
  IN  IF inBounds(x1, y1, src.w, src.h) THEN src.px[<<x1, y1>>] ELSE 0

\* warp.cpp, bilinearAt, at the point (nx / d, ny / d).
bilinearAt(src, nx, ny, d) ==
  LET x0 == nx \div d
      y0 == ny \div d
      ax == nx - x0 * d
      ay == ny - y0 * d
      c00 == IF inBounds(x0, y0, src.w, src.h) THEN src.px[<<x0, y0>>] ELSE 0
      c10 == IF inBounds(x0 + 1, y0, src.w, src.h) THEN src.px[<<x0 + 1, y0>>] ELSE 0
      c01 == IF inBounds(x0, y0 + 1, src.w, src.h) THEN src.px[<<x0, y0 + 1>>] ELSE 0
      c11 == IF inBounds(x0 + 1, y0 + 1, src.w, src.h) THEN src.px[<<x0 + 1, y0 + 1>>] ELSE 0
  IN  SaturateRound(  c00 * (d - ax) * (d - ay) + c10 * ax * (d - ay)
                    + c01 * (d - ax) * ay + c11 * ax * ay,
                    d * d)

\* (mutant) no tolerance: the point must lie in the source.
InTolerantBound_Strict(nx, ny, d, w, h) ==
  nx >= 0 /\ ny >= 0 /\ nx < w * d /\ ny < h * d

\* warp.cpp line 39, at the point (nx / d, ny / d):
\* sx >= -1 && sy >= -1 && sx < src.cols && sy < src.rows
InTolerantBound(nx, ny, d, w, h) ==
  nx >= -d /\ ny >= -d /\ nx < w * d /\ ny < h * d

\* One destination pixel of warpPerspectiveCustom (lines 35-44 of warp.cpp).
WarpPixel(src, Hinv, x, y) ==
  LET q == Apply(Hinv, <<x, y>>)
      d == Abs(q[3])
      nx == IF q[3] < 0 THEN -q[1] ELSE q[1]
      ny == IF q[3] < 0 THEN -q[2] ELSE q[2]
  IN  IF q[3] = 0 THEN 0
      ELSE IF InTolerantBound(nx, ny, d, src.w, src.h)
           THEN bilinearAt(src, nx, ny, d)
           ELSE 0

\* warp.cpp, warpPerspectiveCustom(src, H, outSize)
warpPerspectiveCustom(src, M, outW, outH) ==
  LET Hinv == MatInvM(M)
  IN  [w |-> outW, h |-> outH,
       px |-> [xy \in Pixels(outW, outH) |-> WarpPixel(src, Hinv, xy[1], xy[2])]]

\* cv::cvtColor(BGR2GRAY) then cv::threshold(gray, mask, 1, 255, THRESH_BINARY)
ThresholdMask(img) ==
  [w |-> img.w, h |-> img.h,
   px |-> [xy \in Pixels(img.w, img.h) |-> IF img.px[xy] > 1 THEN 255 ELSE 0]]

\* (mutant) the mask is ignored: a full copy of top.
blendOverlay_Full(baseImg, topImg, mask) == topImg

\* blend.cpp, blendOverlay
blendOverlay(baseImg, topImg, mask) ==
  IF baseImg.w # topImg.w \/ baseImg.h # topImg.h THEN EmptyImg
  ELSE IF mask.w * mask.h = 0 THEN topImg
  ELSE [w |-> baseImg.w, h |-> baseImg.h,
        px |-> [xy \in Pixels(baseImg.w, baseImg.h) |->
                  IF mask.px[xy] # 0 THEN topImg.px[xy] ELSE baseImg.px[xy]]]

Between(v, a, b) == (a <= v /\ v <= b) \/ (b <= v /\ v <= a)

\* A float weight is a multiple of 1 / WeightDen; an 8-bit weight is scaled by
\* 1 / 255 (blend.cpp line 26).
WeightDen == 4
MaskScale(mask) == IF mask.type = "CV_8U" THEN 255 ELSE WeightDen

\* (mutant) the weights are ignored: the top pixel.
FeatherPixel_TopOnly(b, t, wn, wd) == {t}

\* blend.cpp lines 34-50 on one pixel, weight wn / wd: the 8-bit value of
\* 255 * (b/255 * (1 - w) + t/255 * w).  The float result lies within 1e-4 of
\* the exact value (b * (wd - wn) + t * wn) / wd and is rounded to the nearest
\* integer; at an exact tie the float error decides between the neighbours.
FeatherPixel(b, t, wn, wd) ==
  LET n == b * (wd - wn) + t * wn
      q == n \div wd
      r == n % wd
  IN  IF 2 * r < wd THEN {q}
      ELSE IF 2 * r > wd THEN {q + 1}
      ELSE {q, q + 1}

\* blend.cpp, blendFeather(baseImg, topImg, weightMask): the images it can
\* return, and none when an assertion fails.
blendFeather(baseImg, topImg, mask) ==
  IF baseImg.w # topImg.w \/ baseImg.h # topImg.h THEN {}
  ELSE LET dom == Pixels(baseImg.w, baseImg.h)
           cand(xy) == IF mask.w * mask.h = 0
                       THEN FeatherPixel(baseImg.px[xy], topImg.px[xy], 1, 2)
                       ELSE FeatherPixel(baseImg.px[xy], topImg.px[xy],
                                         mask.px[xy], MaskScale(mask))
           all == UNION { cand(xy) : xy \in dom }
       IN  { [w |-> baseImg.w, h |-> baseImg.h, px |-> f] :
               f \in { g \in [dom -> all] : \A xy \in dom : g[xy] \in cand(xy) } }

\* The caller's inverted weight mask: 255 - w for 8-bit, 1 - w for float.
InvertMask(mask) ==
  [mask EXCEPT !.px = [xy \in DOMAIN mask.px |-> MaskScale(mask) - mask.px[xy]]]

\* stitch.cpp lines 370-397, the feathering of stitchImages.  The weights
\* come from two distance transforms: wTop = 0 where the mask is 0 (the pixel
\* is the base pixel), wTop = 1 - 1e-6 outside the old panorama's rectangle
\* (the pixel is the top pixel), and some weight in (0, 1) where both cover
\* the pixel, where the result lies between the two pixels.
FeatherResults(base, top, mask, rx, ry, rw, rh) ==
  LET dom == Pixels(base.w, base.h)
      inRect(xy) == xy[1] >= rx /\ xy[1] < rx + rw /\ xy[2] >= ry /\ xy[2] < ry + rh
      free == { xy \in dom : mask.px[xy] # 0 /\ inRect(xy) /\ base.px[xy] # top.px[xy] }
  IN  { [w |-> base.w, h |-> base.h,
         px |-> [xy \in dom |->
                   IF xy \in free THEN c[xy]
                   ELSE IF mask.px[xy] = 0 THEN base.px[xy]
                   ELSE top.px[xy]]] :
          c \in { cc \in [free -> 0..2] :
                    \A xy \in free : Between(cc[xy], base.px[xy], top.px[xy]) } }

\* stitch.cpp lines 425-434: crop to the bounding box of the mask's pixels.
AutoCrop(img) ==
  LET mask == ThresholdMask(img)
      pts == { xy \in Pixels(img.w, img.h) : mask.px[xy] # 0 }
  IN  IF pts = {} THEN img
      ELSE LET x0 == CHOOSE x \in { xy[1] : xy \in pts } : \A xy \in pts : x <= xy[1]
               x1 == CHOOSE x \in { xy[1] : xy \in pts } : \A xy \in pts : x >= xy[1]
               y0 == CHOOSE y \in { xy[2] : xy \in pts } : \A xy \in pts : y <= xy[2]
               y1 == CHOOSE y \in { xy[2] : xy \in pts } : \A xy \in pts : y >= xy[2]
           IN  [w |-> x1 - x0 + 1, h |-> y1 - y0 + 1,
                px |-> [xy \in Pixels(x1 - x0 + 1, y1 - y0 + 1) |->
                          img.px[<<xy[1] + x0, xy[2] + y0>>]]]

\* ------------------------------------------------------- stitchImages
\* A finite matrix of rank 2: a fit whose destination points are collinear.
SingularM == <<1, 0, 0, 0, 0, 0, 0, 0, 1>>

\* A finite projective estimate whose vanishing line runs just below the
\* new image's lower edge (y = 2^28 / (2^28 + 1)): it keeps the row y = 0 and
\* sends the lower corners 2^28 pixels and more up and to the left.
FarScale == 268435456
FarM == <<FarScale, 0, 0, 0, FarScale, 0, 0, -(FarScale + 1), FarScale>>

\* The finite estimates new->panorama a pair can give, and estimates
\* panorama->new.
FiniteN2P == { TransM(1, 0), TransM(-1, -1), SingularM, FarM }
FiniteP2N == { TransM(-1, 0), TransM(1, 1), SingularM }

RansacIters == {0, 1}

\* The number of keypoints detection finds in an image: none, one, many.
KpCounts == {0, 1, MaxCorr}
BlendModes == {"OVERLAY", "FEATHER"}

\* What a call ransacHomography(.., iters, .., mask) on n correspondences
\* hands back, as the pair (matrix, number of marked entries of the mask):
\* the empty matrix and a cleared mask below four points or without an
\* iteration (lines 96, 129); else the kept candidate, finite or not, with
\* the mask of lines 132-135, a non-finite candidate marking nothing, or the
\* refit of lines 138-144 over at least four marked entries.
RansacOutcomes(n, iters, finite) ==
  IF n < 4 \/ iters < 1
  THEN { [H |-> EmptyH, inl |-> 0] }
  ELSE { [H |-> NonFiniteH, inl |-> c] : c \in {0} \cup (4..n) }
       \cup { [H |-> FiniteH(m), inl |-> c] : m \in finite, c \in 0..n }

\* (mutant) one pair per query descriptor, whatever the train set.
KnnCount_AllQueries(qa, tb) == qa

\* matching.cpp: bruteForceMatchKNN gives no pair when either descriptor set
\* is empty and needs two train descriptors for a pair; else one per query.
KnnCount(qa, tb) == IF qa = 0 \/ tb < 2 THEN 0 ELSE qa

\* (mutant) the early exit hands back the cropped panorama.
EarlyReturn_Cropped(p) == AutoCrop(p)

\* lines 236, 245: return pano;
EarlyReturn(p) == p

\* (mutant) only emptiness is tested.
Unusable_OnlyEmpty(H) == H.kind = "empty"

\* lines 236, 245: H.empty() || !cv::checkRange(H)
Failed(H) == H.kind = "empty" \/ H.kind # "finite"

\* float holds every integer below 2^24 exactly.
F32Exact == 16777216

\* The spacing of the floats around the integer n >= 0.
RECURSIVE F32Step(_)
F32Step(n) == IF n < F32Exact THEN 1 ELSE 2 * F32Step(n \div 2)

\* The float nearest to the integer n >= 0 (ties to the even mantissa).
F32(n) ==
  IF n <= F32Exact THEN n
  ELSE LET s == F32Step(n)
           q == n \div s
           r == n % s
       IN  IF 2 * r < s THEN q * s
           ELSE IF 2 * r > s THEN (q + 1) * s
           ELSE IF q % 2 = 0 THEN q * s ELSE (q + 1) * s

\* line 340: the float sum maxX + tx of a float and an int (maxX >= 0,
\* tx >= 0), rounded to float where it passes 2^24.
F32Sum(a, n) ==
  IF a[1] + n * a[2] <= F32Exact * a[2] THEN <<a[1] + n * a[2], a[2]>>
  ELSE <<F32(Floor(<<a[1] + n * a[2], a[2]>>)), 1>>

\* lines 311-342: the corners of the new image through H, the union with
\* the panorama's rectangle, the offset and the canvas size.
CanvasGrowth(p, im, M) ==
  LET c1 == perspectiveTransform(<<0, 0>>, M)
      c2 == perspectiveTransform(<<im.w, 0>>, M)
      c3 == perspectiveTransform(<<im.w, im.h>>, M)
      c4 == perspectiveTransform(<<0, im.h>>, M)
      minX == RatMin(RatMin(RatMin(RatMin(<<0, 1>>, c1[1]), c2[1]), c3[1]), c4[1])
      minY == RatMin(RatMin(RatMin(RatMin(<<0, 1>>, c1[2]), c2[2]), c3[2]), c4[2])
      maxX == RatMax(RatMax(RatMax(RatMax(<<p.w, 1>>, c1[1]), c2[1]), c3[1]), c4[1])
      maxY == RatMax(RatMax(RatMax(RatMax(<<p.h, 1>>, c1[2]), c2[2]), c3[2]), c4[2])
      ox == IF RatLt(minX, <<0, 1>>) THEN Floor(<<-minX[1], minX[2]>>) ELSE 0
      oy == IF RatLt(minY, <<0, 1>>) THEN Floor(<<-minY[1], minY[2]>>) ELSE 0
  IN  [tx |-> ox, ty |-> oy,
       outW |-> Ceil(F32Sum(maxX, ox)),
       outH |-> Ceil(F32Sum(maxY, oy))]

\* lines 353-354: a black canvas with the panorama copied in at (tx, ty).
CanvasOf(p, ox, oy, outW, outH) ==
  [w |-> outW, h |-> outH,
   px |-> [xy \in Pixels(outW, outH) |->
             IF inBounds(xy[1] - ox, xy[2] - oy, p.w, p.h)
             THEN p.px[<<xy[1] - ox, xy[2] - oy>>]
             ELSE 0]]

StitchLocalsInit ==
  /\ kpsA = 0 /\ kpsB = 0 /\ good = 0
  /\ H_p2n = EmptyH /\ H_n2p = EmptyH /\ in_p2n = 0 /\ in_n2p = 0
  /\ H_new_to_pano = EmptyH
  /\ tx = 0 /\ ty = 0 /\ warped = EmptyImg /\ canvas = EmptyImg

InitStitch ==
  /\ RansacIdle /\ RngIdle /\ MatchIdle /\ OpIdle /\ PerfIdle
  /\ imgs \in UNION { [1..n -> Images] : n \in 0..MaxImgs }
  /\ blendMode \in BlendModes
  /\ ransacIter \in RansacIters
  /\ pc = "start" /\ img_i = 0 /\ pano = EmptyImg
  /\ StitchLocalsInit
  /\ ret = EmptyImg /\ panoAtStart = EmptyImg /\ log = << >>

stitchLocals ==
  <<kpsA, kpsB, good, H_p2n, H_n2p, in_p2n, in_n2p, H_new_to_pano,
    tx, ty, warped, canvas>>

\* (mutant) the composition starts from the last image.
FirstPano_Last(list) == list[Len(list)]

\* line 76: cv::Mat pano = imgs[0].clone();
FirstPano(list) == list[1]

\* lines 56-76: no image gives cv::Mat(); else the first image is the panorama.
StitchStart ==
  /\ pc = "start"
  /\ IF imgs = << >>
     THEN /\ ret' = EmptyImg
          /\ pc' = "done"
          /\ UNCHANGED <<pano, img_i>>
     ELSE /\ pano' = FirstPano(imgs)
          /\ img_i' = 1
          /\ pc' = "loop"
          /\ UNCHANGED ret
  /\ log' = Append(log, <<"Start", 0>>)
  /\ UNCHANGED <<imgs, blendMode, ransacIter, panoAtStart, stitchLocals>>

\* lines 78-229: the loop test, detection on the panorama and the new image,
\* bruteForceMatchKNN, ratioTest, the point lists.
StitchMatch ==
  /\ pc = "loop"
  /\ img_i < Len(imgs)
  /\ \E ka \in KpCounts, kb \in KpCounts :
       /\ kpsA' = ka
       /\ kpsB' = kb
       /\ good' \in 0..KnnCount(ka, kb)
  /\ panoAtStart' = pano
  /\ pc' = "matched"
  /\ log' = Append(log, <<"Matched", img_i>>)
  /\ UNCHANGED <<imgs, blendMode, ransacIter, img_i, pano, ret,
                 H_p2n, H_n2p, in_p2n, in_n2p, H_new_to_pano,
                 tx, ty, warped, canvas>>

\* lines 230-236: both estimates; both unusable ends the composition.
StitchEstimate ==
  /\ pc = "matched"
  /\ \E rp \in RansacOutcomes(good, ransacIter, FiniteP2N),
        rn \in RansacOutcomes(good, ransacIter, FiniteN2P) :
       /\ H_p2n' = rp.H
       /\ in_p2n' = rp.inl
       /\ H_n2p' = rn.H
       /\ in_n2p' = rn.inl
       /\ IF Failed(rp.H) /\ Failed(rn.H)
          THEN /\ ret' = EarlyReturn(pano)
               /\ pc' = "done"
          ELSE /\ pc' = "estimated"
               /\ UNCHANGED ret
  /\ log' = Append(log, <<"Estimated", img_i>>)
  /\ UNCHANGED <<imgs, blendMode, ransacIter, img_i, pano, panoAtStart,
                 kpsA, kpsB, good, H_new_to_pano, tx, ty, warped, canvas>>

\* (mutant) equal counts select panorama->new.
UseN2P_Strict(inN, inP) == inN > inP

\* line 242: bool use_n2p = in_n2p >= in_p2n;
UseN2P(inN, inP) == inN >= inP

\* lines 239-245: the direction with at least as many inliers, inverted when
\* it is panorama->new; an unusable choice ends the composition.
StitchOrient ==
  /\ pc = "estimated"
  /\ LET use_n2p == UseN2P(in_n2p, in_p2n)
         H == IF use_n2p THEN H_n2p ELSE MatInv(H_p2n)
     IN  /\ H_new_to_pano' = H
         /\ IF H.kind = "assert"
            THEN /\ pc' = "exception"
                 /\ UNCHANGED ret
            ELSE IF Failed(H)
            THEN /\ ret' = EarlyReturn(pano)
                 /\ pc' = "done"
            ELSE /\ pc' = "oriented"
                 /\ UNCHANGED ret
  /\ log' = Append(log, <<"Oriented", img_i>>)
  /\ UNCHANGED <<imgs, blendMode, ransacIter, img_i, pano, panoAtStart,
                 kpsA, kpsB, good, H_p2n, H_n2p, in_p2n, in_n2p,
                 tx, ty, warped, canvas>>

\* lines 311-354: canvas growth, G = T * H, the warp, the canvas.
StitchWarp ==
  /\ pc = "oriented"
  /\ H_new_to_pano.kind = "finite"
  /\ LET g == CanvasGrowth(pano, imgs[img_i + 1], H_new_to_pano.m)
         G == MatMul(TransM(g.tx, g.ty), H_new_to_pano.m)
     IN  /\ tx' = g.tx
         /\ ty' = g.ty
         /\ IF g.tx + pano.w > g.outW \/ g.ty + pano.h > g.outH
            THEN /\ pc' = "exception"
                 /\ UNCHANGED <<warped, canvas>>
            ELSE /\ warped' = warpPerspectiveCustom(imgs[img_i + 1], G, g.outW, g.outH)
                 /\ canvas' = CanvasOf(pano, g.tx, g.ty, g.outW, g.outH)
                 /\ pc' = "warped"
  /\ log' = Append(log, <<"Warped", img_i>>)
  /\ UNCHANGED <<imgs, blendMode, ransacIter, img_i, pano, panoAtStart, ret,
                 kpsA, kpsB, good, H_p2n, H_n2p, in_p2n, in_n2p, H_new_to_pano>>

\* lines 356-402 and the ++i of line 78: the mask, the blend, pano = blended.
\* The locals of the iteration end with it.
StitchBlend ==
  /\ pc = "warped"
  /\ LET mask == ThresholdMask(warped)
     IN  IF blendMode = "OVERLAY"
         THEN pano' = blendOverlay(canvas, warped, mask)
         ELSE pano' \in FeatherResults(canvas, warped, mask, tx, ty, pano.w, pano.h)
  /\ img_i' = img_i + 1
  /\ pc' = "loop"
  /\ kpsA' = 0 /\ kpsB' = 0 /\ good' = 0
  /\ H_p2n' = EmptyH /\ H_n2p' = EmptyH /\ in_p2n' = 0 /\ in_n2p' = 0
  /\ H_new_to_pano' = EmptyH
  /\ tx' = 0 /\ ty' = 0 /\ warped' = EmptyImg /\ canvas' = EmptyImg
  /\ log' = Append(log, <<"Blended", img_i>>)
  /\ UNCHANGED <<imgs, blendMode, ransacIter, panoAtStart, ret>>

\* lines 425-434: the auto-crop after the loop.
StitchCrop ==
  /\ pc = "loop"
  /\ img_i >= Len(imgs)
  /\ pano' = AutoCrop(pano)
  /\ pc' = "cropped"
  /\ log' = Append(log, <<"Cropped", img_i>>)
  /\ UNCHANGED <<imgs, blendMode, ransacIter, img_i, panoAtStart, ret, stitchLocals>>

\* line 436: return pano;
StitchReturn ==
  /\ pc = "cropped"
  /\ ret' = pano
  /\ pc' = "done"
  /\ UNCHANGED <<imgs, blendMode, ransacIter, img_i, pano, panoAtStart, log,
                 stitchLocals>>

NextStitch ==
  \/ StitchStart /\ UNCHANGED <<ransacVars, rngVars, matchVars, opVars, perfVars>>
  \/ StitchMatch /\ UNCHANGED <<ransacVars, rngVars, matchVars, opVars, perfVars>>
  \/ StitchEstimate /\ UNCHANGED <<ransacVars, rngVars, matchVars, opVars, perfVars>>
  \/ StitchOrient /\ UNCHANGED <<ransacVars, rngVars, matchVars, opVars, perfVars>>
  \/ StitchWarp /\ UNCHANGED <<ransacVars, rngVars, matchVars, opVars, perfVars>>
  \/ StitchBlend /\ UNCHANGED <<ransacVars, rngVars, matchVars, opVars, perfVars>>
  \/ StitchCrop /\ UNCHANGED <<ransacVars, rngVars, matchVars, opVars, perfVars>>
  \/ StitchReturn /\ UNCHANGED <<ransacVars, rngVars, matchVars, opVars, perfVars>>

SpecStitch == InitStitch /\ [][NextStitch]_vars

\* -------------------------------------------- computeHomographyDLT alone
\* Every correspondence free: the inputs of a direct call.
AllScenes ==
  UNION { { [src |-> Prefix(n),
             dst |-> [i \in 1..n |-> << PtList[i][1] + o[i][1], PtList[i][2] + o[i][2] >>]] :
              o \in [1..n -> Offsets] } : n \in 0..MaxPts }
  \cup { [src |-> Prefix(n), dst |-> Prefix(n - 1)] : n \in 1..MaxPts }

InitDLT ==
  /\ StitchIdle /\ RngIdle /\ MatchIdle /\ OpIdle /\ PerfIdle
  /\ \E sc \in AllScenes : srcPts = sc.src /\ dstPts = sc.dst
  /\ iterations = 0
  /\ thresh = 0
  /\ rpc = "dlt"
  /\ RansacLocalsInit

\* A call computeHomographyDLT(srcPts, dstPts): lines 39-77.
DLTCall ==
  /\ rpc = "dlt"
  /\ \E H \in computeHomographyDLT(srcPts, dstPts, svdMemo) :
       IF H.kind = "assert"
       THEN /\ rpc' = "assert" /\ UNCHANGED <<retH, svdMemo>>
       ELSE /\ rpc' = "dlt_done"
            /\ retH' = H
            /\ svdMemo' = SvdRecord(svdMemo, srcPts, dstPts, H)
  /\ UNCHANGED <<srcPts, dstPts, iterations, thresh, inlierMask, it, used, k, idx,
                 bestInliers, bestH, firstWith, tieSeen>>

NextDLT == DLTCall /\ UNCHANGED <<stitchVars, rngVars, matchVars, opVars, perfVars>>

SpecDLT == InitDLT /\ [][NextDLT]_vars

\* ------------------------------- the argument checks of the four functions
\* Single descriptor rows of one or two columns and of either element type.
ContractRows == { <<0>>, <<3>> } \cup DescRows

RowDescs ==
  { [type |-> et, cols |-> Len(r), rows |-> <<r>>] :
      et \in ElemTypes, r \in ContractRows }

\* Point arrays of different lengths, and the four-point lists of equal length.
ContractScenes ==
  { sc \in Scenes : Len(sc.src) # Len(sc.dst) \/ Len(sc.src) = 4 }

InitContract ==
  /\ StitchIdle /\ RngIdle /\ OpIdle /\ PerfIdle
  /\ \/ /\ RansacIdle
        /\ MatchLocalsInit
        /\ mpc = "dist"
        /\ descA \in RowDescs /\ descB \in RowDescs
        /\ distType \in DistTypes
        /\ detector = "SIFT" /\ ratio = 0 /\ kArg = 0 /\ knn = << >>
     \/ /\ MatchIdle
        /\ RansacLocalsInit
        /\ \/ /\ rpc = "dlt"
              /\ \E sc \in AllScenes : srcPts = sc.src /\ dstPts = sc.dst
              /\ iterations = 0 /\ thresh = 0
           \/ /\ rpc = "entry"
              /\ \E sc \in ContractScenes : srcPts = sc.src /\ dstPts = sc.dst
              /\ iterations \in {0, 1} /\ thresh \in Thresholds

\* A call euclideanDistance(descA, descB) or hammingDistance(descA, descB):
\* matching.cpp lines 18-28 and 34-50.
DistCall ==
  /\ mpc = "dist"
  /\ LET r == IF distType = "L2" THEN euclideanDistance(descA, descB)
              ELSE hammingDistance(descA, descB)
     IN  IF r.ok
         THEN dres' = r.d /\ mpc' = "dist_done"
         ELSE mpc' = "assert" /\ UNCHANGED dres
  /\ UNCHANGED <<detector, descA, descB, ratio, kArg, distType, knn, goodM, nn>>

NextContract ==
  \/ DistCall /\ UNCHANGED <<ransacVars, stitchVars, rngVars, opVars, perfVars>>
  \/ DLTCall /\ UNCHANGED <<stitchVars, rngVars, matchVars, opVars, perfVars>>
  \/ RansacEntry /\ UNCHANGED <<stitchVars, rngVars, matchVars, opVars, perfVars>>
  \/ RansacLoop /\ UNCHANGED <<stitchVars, rngVars, matchVars, opVars, perfVars>>
  \/ \E r \in 0..(Len(srcPts) - 1) : RansacDraw(r) /\ UNCHANGED <<stitchVars, rngVars, matchVars, opVars, perfVars>>
  \/ RansacFit /\ UNCHANGED <<stitchVars, rngVars, matchVars, opVars, perfVars>>
  \/ RansacMask /\ UNCHANGED <<stitchVars, rngVars, matchVars, opVars, perfVars>>
  \/ RansacRefit /\ UNCHANGED <<stitchVars, rngVars, matchVars, opVars, perfVars>>

SpecContract == InitContract /\ [][NextContract]_vars

\* ------------------------------------------- blendOverlay and blendFeather
\* The side of the images handed to the blend and warp functions.
MaxSide == 2

PixVals == {0, 1, 255}

\* Images of one row.
RowImages(n) ==
  { [w |-> n, h |-> 1, px |-> f] : f \in [Pixels(n, 1) -> PixVals] }

\* 8-bit masks (0, 1, 127, 128, 255) and float weight masks (0, 1/4, .., 1).
Masks(n) ==
  { [type |-> "CV_8U", w |-> n, h |-> 1, px |-> f] :
      f \in [Pixels(n, 1) -> {0, 1, 127, 128, 255}] }
  \cup { [type |-> "CV_32F", w |-> n, h |-> 1, px |-> f] :
           f \in [Pixels(n, 1) -> 0..WeightDen] }

EmptyMask == [type |-> "CV_8U", w |-> 0, h |-> 0, px |-> << >>]

InitBlend ==
  /\ RansacIdle /\ StitchIdle /\ RngIdle /\ MatchIdle /\ PerfIdle
  /\ opc \in {"overlay", "feather"}
  /\ imgA \in RowImages(MaxSide)
  /\ imgB \in RowImages(MaxSide)
  /\ \/ imgM \in { m \in Masks(MaxSide) : opc = "feather" \/ m.type = "CV_8U" }
     \/ opc = "overlay" /\ imgM = EmptyMask
  /\ opH = EmptyH /\ opW = 0 /\ opHt = 0
  /\ imgOut = EmptyImg /\ imgOut2 = EmptyImg
  /\ grow = NoGrowth

\* A call blendOverlay(imgA, imgB, imgM).
OverlayCall ==
  /\ opc = "overlay"
  /\ imgOut' = blendOverlay(imgA, imgB, imgM)
  /\ opc' = "overlay_done"
  /\ UNCHANGED <<imgA, imgB, imgM, opH, opW, opHt, imgOut2, grow>>

\* A call blendFeather(imgA, imgB, imgM).
FeatherCall ==
  /\ opc = "feather"
  /\ imgOut' \in blendFeather(imgA, imgB, imgM)
  /\ opc' = "feather_once"
  /\ UNCHANGED <<imgA, imgB, imgM, opH, opW, opHt, imgOut2, grow>>

\* The call with the images swapped and the weights inverted:
\* blendFeather(imgB, imgA, inverted imgM).
FeatherSwappedCall ==
  /\ opc = "feather_once"
  /\ imgOut2' \in blendFeather(imgB, imgA, InvertMask(imgM))
  /\ opc' = "feather_done"
  /\ UNCHANGED <<imgA, imgB, imgM, opH, opW, opHt, imgOut, grow>>

NextBlend ==
  \/ OverlayCall /\ UNCHANGED <<ransacVars, stitchVars, rngVars, matchVars, perfVars>>
  \/ FeatherCall /\ UNCHANGED <<ransacVars, stitchVars, rngVars, matchVars, perfVars>>
  \/ FeatherSwappedCall /\ UNCHANGED <<ransacVars, stitchVars, rngVars, matchVars, perfVars>>

SpecBlend == InitBlend /\ [][NextBlend]_vars

\* --------------------------------------------------- warpPerspectiveCustom
\* Source images of two rows.
GridImages(n) ==
  { [w |-> n, h |-> 2, px |-> f] : f \in [Pixels(n, 2) -> PixVals] }

\* The homographies handed to the warp: the identity (twice, at two scales),
\* shifts by whole and by half pixels, an enlargement, a projective map and
\* a singular matrix.
WarpMats ==
  { IdentityM, <<2, 0, 0, 0, 2, 0, 0, 0, 2>>, TransM(1, 0), TransM(-1, -1),
    <<2, 0, 1, 0, 2, 1, 0, 0, 2>>, <<2, 0, 0, 0, 2, 0, 0, 0, 1>>,
    <<1, 0, 0, 0, 1, 0, 1, 0, 1>>, SingularM }

InitWarp ==
  /\ RansacIdle /\ StitchIdle /\ RngIdle /\ MatchIdle /\ PerfIdle
  /\ opc = "warp"
  /\ imgA \in GridImages(MaxSide)
  /\ imgB = EmptyImg /\ imgM = EmptyImg
  /\ opH \in { FiniteH(m) : m \in WarpMats }
  /\ opW \in 1..(MaxSide + 1) /\ opHt \in 1..3
  /\ imgOut = EmptyImg /\ imgOut2 = EmptyImg
  /\ grow = NoGrowth

\* A call warpPerspectiveCustom(imgA, opH, Size(opW, opHt)).
WarpCall ==
  /\ opc = "warp"
  /\ imgOut' = warpPerspectiveCustom(imgA, opH.m, opW, opHt)
  /\ opc' = "warp_done"
  /\ UNCHANGED <<imgA, imgB, imgM, opH, opW, opHt, imgOut2, grow>>

NextWarp == WarpCall /\ UNCHANGED <<ransacVars, stitchVars, rngVars, matchVars, perfVars>>

SpecWarp == InitWarp /\ [][NextWarp]_vars

\* ------------------------------------------------- the canvas-growth step
\* Side lengths of the panorama and of the new image.
CanvasSides == {1, MaxSide, 100}

\* An image of which only the size matters.
Blank(w, h) == [w |-> w, h |-> h, px |-> << >>]

\* The chosen new->panorama homographies: translations by whole pixels,
\* translations by fractions of a pixel, an enlargement and a singular matrix.
CanvasMats ==
  { TransM(dx, dy) : dx \in {-40, -1, 0, 1, 40}, dy \in {-1, 0, 1} }
    \cup { <<2, 0, -1, 0, 2, 0, 0, 0, 2>>, <<2, 0, 1, 0, 2, -1, 0, 0, 2>>,
            <<4, 0, -5, 0, 4, -3, 0, 0, 4>>, <<2, 0, 0, 0, 2, 0, 0, 0, 1>>,
            SingularM }

InitCanvas ==
  /\ RansacIdle /\ StitchIdle /\ RngIdle /\ MatchIdle /\ PerfIdle
  /\ opc = "canvas"
  /\ imgA \in { Blank(w, h) : w \in CanvasSides, h \in CanvasSides }
  /\ imgB \in { Blank(w, h) : w \in CanvasSides, h \in CanvasSides }
  /\ imgM = EmptyImg
  /\ opH \in { FiniteH(m) : m \in CanvasMats }
  /\ opW = 0 /\ opHt = 0
  /\ imgOut = EmptyImg /\ imgOut2 = EmptyImg
  /\ grow = NoGrowth

\* stitch.cpp lines 311-341 for the panorama imgA, the new image imgB and
\* the chosen homography opH.
CanvasCall ==
  /\ opc = "canvas"
  /\ grow' = CanvasGrowth(imgA, imgB, opH.m)
  /\ opc' = "canvas_done"
  /\ UNCHANGED <<imgA, imgB, imgM, opH, opW, opHt, imgOut, imgOut2>>

NextCanvas == CanvasCall /\ UNCHANGED <<ransacVars, stitchVars, rngVars, matchVars, perfVars>>

SpecCanvas == InitCanvas /\ [][NextCanvas]_vars

\* --------------------------------------- computeHomographyDLT, round trip
\* Synthetic homographies: the identity, translations, an enlargement, a
\* shear, a quarter turn, the same maps at other scales of the matrix,
\* projective maps, and an invertible matrix whose bottom-right entry is 0.
RoundTripMats ==
  { IdentityM, <<-3, 0, 0, 0, -3, 0, 0, 0, -3>>, TransM(1, 0), TransM(-1, 2),
    <<2, 0, 2, 0, 2, 0, 0, 0, 2>>, <<2, 0, 0, 0, 2, 0, 0, 0, 1>>,
    <<1, 1, 0, 0, 1, 0, 0, 0, 1>>, <<0, -1, 0, 1, 0, 0, 0, 0, 1>>,
    <<2, 0, 0, 0, 2, 0, 1, 0, 1>>, <<4, 0, 0, 0, 4, 0, 2, 0, 2>>,
    <<0, 0, 2, 2, 0, 0, 1, 1, 0>> }

\* The points of PtList with their index in S, in the order of PtList.
RECURSIVE PickPts(_)
PickPts(S) ==
  IF S = {} THEN << >>
  ELSE LET m == CHOOSE x \in S : \A y \in S : y <= x
       IN  Append(PickPts(S \ {m}), PtList[m])

NoThreeCollinear(s) ==
  \A a, b, c \in 1..Len(s) :
     (a < b /\ b < c) => Det3(Hom(s[a]), Hom(s[b]), Hom(s[c])) # 0

\* M sends p to a finite point with whole coordinates (a cv::Point2f holds
\* it exactly).
Projectable(M, p) ==
  LET v == Apply(M, p)
  IN  /\ v[3] # 0
      /\ v[1] % Abs(v[3]) = 0 /\ v[2] % Abs(v[3]) = 0

\* project(H, p) = (X / w, Y / w)
Project(M, p) ==
  LET v == Apply(M, p)
      sg == IF v[3] < 0 THEN -1 ELSE 1
  IN  << (sg * v[1]) \div Abs(v[3]), (sg * v[2]) \div Abs(v[3]) >>

InitRoundTrip ==
  /\ StitchIdle /\ RngIdle /\ MatchIdle /\ PerfIdle
  /\ \E M \in RoundTripMats, S \in SUBSET (1..Len(PtList)) :
       /\ Cardinality(S) >= 4 /\ Cardinality(S) <= MaxPts
       /\ NoThreeCollinear(PickPts(S))
       /\ \A n \in S : Projectable(M, PtList[n])
       /\ srcPts = PickPts(S)
       /\ dstPts = [n \in 1..Cardinality(S) |-> Project(M, PickPts(S)[n])]
       /\ opH = FiniteH(M)
  /\ iterations = 0
  /\ thresh = 0
  /\ rpc = "dlt"
  /\ RansacLocalsInit
  /\ opc = "roundtrip"
  /\ imgA = EmptyImg /\ imgB = EmptyImg /\ imgM = EmptyImg
  /\ opW = 0 /\ opHt = 0
  /\ imgOut = EmptyImg /\ imgOut2 = EmptyImg
  /\ grow = NoGrowth

SpecRoundTrip == InitRoundTrip /\ [][NextDLT]_vars

\* ---------------------------------------------------- PerformanceTracker
\* PerformanceStats::kMaxSamples
kMaxSamples == 90

\* pushSample calls made in a run, and the calls in which the sample and the
\* key vary (later calls push the unit sample under the first key).
MaxPush == 93
MaxVaried == 3

Keys == {"A", "B"}

\* A double of the form a * 2^53 + b, written <<a, b>>, with a in {0, 1} and
\* b a small integer.  Below 2^53 every integer is a double; from 2^53 to
\* 2^54 only the even ones are, and a sum that falls on an odd integer is
\* rounded to the neighbour with the even mantissa.
DRound(x) ==
  IF x[1] # 1 \/ x[2] < 0 \/ x[2] % 2 = 0 THEN x
  ELSE IF ((x[2] - 1) \div 2) % 2 = 0 THEN <<1, x[2] - 1>> ELSE <<1, x[2] + 1>>

\* sum += v and sum -= v on doubles.
DAdd(x, y) == DRound(<<x[1] + y[1], x[2] + y[2]>>)
DSub(x, y) == DRound(<<x[1] - y[1], x[2] - y[2]>>)

\* The samples pushed: an ordinary frame, a duplicated frame, and a frame
\* whose frame time is 2^53 times the ordinary one.
UnitSample ==
  [frame |-> <<0, 1>>, render |-> <<0, 1>>, cpu |-> <<0, 1>>, gpu |-> <<0, 1>>, dup |-> 0]
DupSample ==
  [frame |-> <<0, 2>>, render |-> <<0, 3>>, cpu |-> <<0, 0>>, gpu |-> <<0, 1>>, dup |-> 1]
StallSample ==
  [frame |-> <<1, 0>>, render |-> <<0, 1>>, cpu |-> <<0, 2>>, gpu |-> <<0, 0>>, dup |-> 1]

\* A default-constructed PerformanceStats (lines 18-29).
NewStats ==
  [frameTimesMs |-> << >>, renderTimesMs |-> << >>, cpuTimesMs |-> << >>,
   gpuUploadTimesMs |-> << >>, duplicateFlags |-> << >>,
   sumFrameMs |-> <<0, 0>>, sumRenderMs |-> <<0, 0>>, sumCpuMs |-> <<0, 0>>,
   sumGpuUploadMs |-> <<0, 0>>, sumDuplicateFlags |-> 0,
   totalSamples |-> 0, primed |-> FALSE]

\* push_back, sum += v, and the eviction of the front above kMaxSamples, for
\* a deque of doubles and for the deque of flags.
PushTime(dq, sum, v) ==
  LET d1 == Append(dq, v)
      s1 == DAdd(sum, v)
  IN  IF Len(d1) > kMaxSamples
      THEN [dq |-> Tail(d1), sum |-> DSub(s1, Head(d1))]
      ELSE [dq |-> d1, sum |-> s1]

PushFlag(dq, sum, v) ==
  LET d1 == Append(dq, v)
      s1 == sum + v
  IN  IF Len(d1) > kMaxSamples
      THEN [dq |-> Tail(d1), sum |-> s1 - Head(d1)]
      ELSE [dq |-> d1, sum |-> s1]

\* PerformanceStats::addSample
addSample(st, s) ==
  IF ~st.primed THEN [st EXCEPT !.primed = TRUE]
  ELSE LET f == PushTime(st.frameTimesMs, st.sumFrameMs, s.frame)
           r == PushTime(st.renderTimesMs, st.sumRenderMs, s.render)
           c == PushTime(st.cpuTimesMs, st.sumCpuMs, s.cpu)
           g == PushTime(st.gpuUploadTimesMs, st.sumGpuUploadMs, s.gpu)
           d == PushFlag(st.duplicateFlags, st.sumDuplicateFlags, s.dup)
       IN  [frameTimesMs |-> f.dq, renderTimesMs |-> r.dq, cpuTimesMs |-> c.dq,
            gpuUploadTimesMs |-> g.dq, duplicateFlags |-> d.dq,
            sumFrameMs |-> f.sum, sumRenderMs |-> r.sum, sumCpuMs |-> c.sum,
            sumGpuUploadMs |-> g.sum, sumDuplicateFlags |-> d.sum,
            totalSamples |-> st.totalSamples + 1, primed |-> TRUE]

\* dataset_[key]: the entry, default-constructed when the key is new.
StatsAt(ds, key) == IF key \in DOMAIN ds THEN ds[key] ELSE NewStats

WithStats(ds, key, st) ==
  [x \in DOMAIN ds \cup {key} |-> IF x = key THEN st ELSE ds[x]]

InitPerf ==
  /\ RansacIdle /\ StitchIdle /\ RngIdle /\ MatchIdle /\ OpIdle
  /\ dataset = << >>
  /\ pushed = 0

\* PerformanceTracker::pushSample
PushSample ==
  /\ pushed < MaxPush
  /\ \E key \in Keys, s \in {UnitSample, DupSample, StallSample} :
       /\ pushed >= MaxVaried => (key = "A" /\ s = UnitSample)
       /\ s = StallSample => StatsAt(dataset, key).sumFrameMs[1] = 0
       /\ dataset' = WithStats(dataset, key, addSample(StatsAt(dataset, key), s))
  /\ pushed' = pushed + 1

\* PerformanceTracker::resetSamples
ResetSamples ==
  /\ \E key \in Keys :
       IF key \in DOMAIN dataset
       THEN dataset' = WithStats(dataset, key, NewStats)
       ELSE UNCHANGED dataset
  /\ UNCHANGED pushed

\* PerformanceTracker::clear
Clear ==
  /\ dataset' = << >>
  /\ UNCHANGED pushed

NextPerf ==
  \/ PushSample /\ UNCHANGED <<ransacVars, stitchVars, rngVars, matchVars, opVars>>
  \/ ResetSamples /\ UNCHANGED <<ransacVars, stitchVars, rngVars, matchVars, opVars>>
  \/ Clear /\ UNCHANGED <<ransacVars, stitchVars, rngVars, matchVars, opVars>>

SpecPerf == InitPerf /\ [][NextPerf]_vars

\* ================================================================ claims

LastStage == IF log = << >> THEN "" ELSE log[Len(log)][1]

\* C1: in stitchImages, when both estimates of a pair are unusable (empty or
\* non-finite), the composition stops at that image and returns the panorama
\* exactly as it stood before the image was processed; nothing of that image
\* or of a later one is warped or blended.
C1_BothFailReturnsPano ==
  (LastStage = "Estimated" /\ Failed(H_p2n) /\ Failed(H_n2p)) =>
     /\ pc = "done"
     /\ ret = panoAtStart
     /\ \A j \in 1..Len(log) :
          log[j][2] >= img_i => log[j][1] \in {"Start", "Matched", "Estimated"}

C1_Witness ==
  /\ pc = "done" /\ LastStage = "Estimated"
  /\ Len(imgs) = 3 /\ img_i = 2
  /\ H_p2n = NonFiniteH /\ H_n2p = NonFiniteH
  /\ ret = panoAtStart /\ ret.w > 2

\* C2 (as stated): a pair is given up only when both estimates are unusable;
\* when at least one of them is non-empty and finite the composer goes on to
\* warp and blend the image instead of returning early.
C2_AbortOnlyWhenBothFail ==
  (pc = "done" /\ LastStage \in {"Estimated", "Oriented"}) =>
     (Failed(H_p2n) /\ Failed(H_n2p))

\* C3: the homography used for the corner transform, the translation
\* composition and the warp is non-empty and finite; an empty or non-finite
\* one never reaches canvas growth or warpPerspectiveCustom.
C3_UsedHomographyFinite ==
  (pc \in {"oriented", "warped"}) => H_new_to_pano.kind = "finite"

C3_Witness ==
  /\ pc = "warped"
  /\ H_n2p = NonFiniteH /\ in_p2n > in_n2p
  /\ H_new_to_pano = MatInv(H_p2n) /\ H_new_to_pano.kind = "finite"
  /\ warped.w > 0

\* C4 (as stated): for a non-empty input sequence every run of stitchImages
\* passes through the Cropped state before Done, the early stops included.
C4_CroppedBeforeDone ==
  (pc = "done" /\ imgs # << >>) =>
     \E j \in 1..Len(log) : log[j][1] = "Cropped"

\* C5: ransacHomography with n < 4 correspondences (equal lengths) returns an
\* empty homography and leaves the inlier mask with length n and every entry
\* false; with n >= 4 the mask it leaves has length n too.
C5_MaskLength ==
  (rpc = "done") =>
     /\ Len(inlierMask) = Len(srcPts)
     /\ (Len(srcPts) < 4 =>
           /\ retH = EmptyH
           /\ \A i \in 1..Len(inlierMask) : ~inlierMask[i])

C5_Witness == rpc = "done" /\ Len(srcPts) = 3 /\ Len(inlierMask) = 3 /\ retH = EmptyH

\* C6 (as stated): computeHomographyDLT with fewer than 4 correspondences
\* returns an empty homography and does not throw.
C6_ReturnsEmptyBelowFour ==
  (rpc \in {"dlt_done", "assert"} /\ Len(srcPts) = Len(dstPts) /\ Len(srcPts) < 4) =>
     (rpc = "dlt_done" /\ retH = EmptyH)

\* C6 (amended): computeHomographyDLT with fewer than 4 correspondences fails
\* its assertion (throws) and returns no homography; whenever it returns, it
\* was given at least 4 correspondences and the matrix returned is not empty.
C6_AssertsBelowFour ==
  /\ (rpc \in {"dlt_done", "assert"} /\ Len(srcPts) = Len(dstPts) /\ Len(srcPts) < 4) =>
        rpc = "assert"
  /\ (rpc = "dlt_done") => (Len(srcPts) >= 4 /\ retH.kind # "empty")

C6_Witness == rpc = "assert" /\ Len(srcPts) = 3 /\ Len(dstPts) = 3

\* Every candidate fitted so far was invalid: non-finite, or without inliers
\* (a non-finite candidate has no inliers).
NoValidCandidate == \A c \in DOMAIN firstWith : c = 0

\* C7: ransacHomography with n >= 4 returns an empty homography whenever no
\* candidate of any iteration achieved a valid fit; it never returns such a
\* candidate.
C7_EmptyWhenNoValidFit ==
  (rpc = "done" /\ Len(srcPts) >= 4 /\ NoValidCandidate) => retH = EmptyH

MaxOf(S) == CHOOSE x \in S : \A y \in S : y <= x

\* C8: after all iterations the retained candidate is the one fitted in the
\* earliest iteration whose inlier count equals the maximum seen over all
\* iterations; a later candidate with an equal count never replaces it.
C8_FirstFoundWins ==
  (rpc = "after" /\ DOMAIN firstWith # {}) =>
     /\ bestInliers = MaxOf(DOMAIN firstWith)
     /\ bestH = firstWith[bestInliers]

C8_Witness == rpc = "after" /\ tieSeen /\ bestH = firstWith[bestInliers]

\* C9: the minimal sample handed to computeHomographyDLT in an iteration is
\* 4 pairwise distinct correspondence indices, each in [0, n-1].
C9_DistinctSample ==
  (rpc = "fit") =>
     /\ Len(idx) = 4
     /\ \A a, b \in 1..4 : a # b => idx[a] # idx[b]
     /\ \A a \in 1..4 : idx[a] >= 0 /\ idx[a] <= Len(srcPts) - 1

C9_Witness == rpc = "fit" /\ Len(srcPts) = 5 /\ idx = <<4, 2, 0, 3>>

\* C10: when a best candidate exists, the final mask marks exactly the
\* correspondences whose reprojection error under it is strictly below the
\* threshold, and the value returned is the DLT refit over exactly the marked
\* correspondences when there are at least 4, else the best candidate itself.
C10_MaskAndRefit ==
  [][ (rpc = "refit") =>
        /\ \A i \in 1..Len(srcPts) :
             inlierMask[i] <=> reprojErrorBelow(bestH, srcPts[i], dstPts[i], thresh)
        /\ Len(inlierMask) = Len(srcPts)
        /\ inlierMask' = inlierMask
        /\ rpc' \in {"refit", "done"}
        /\ rpc' = "done" =>
             IF Cardinality(Marked(inlierMask)) >= 4
             THEN retH' \in computeHomographyDLT(SelectMarked(srcPts, inlierMask, 1),
                                                 SelectMarked(dstPts, inlierMask, 1),
                                                 svdMemo)
             ELSE retH' = bestH ]_vars

C10_Witness ==
  /\ rpc = "done" /\ iterations > 0
  /\ Cardinality(Marked(inlierMask)) = 4 /\ Len(srcPts) = 5
  /\ retH.kind = "finite"
\* C11: ransacHomography is deterministic: a call with the same
\* correspondences, iteration count and threshold returns the same homography
\* and the same inlier mask as the call before it, however many calls came
\* before.
C11_SameResultEveryCall ==
  (rpc = "done" /\ calls >= 1) => (retH = prevH /\ inlierMask = prevMask)

C11_Witness ==
  /\ rpc = "done" /\ calls = 2
  /\ retH = prevH /\ inlierMask = prevMask
  /\ retH.kind = "finite" /\ Len(srcPts) = 5
  /\ \E i, j \in 1..5 : inlierMask[i] /\ ~inlierMask[j]
\* C12: the composer uses the new->panorama estimate as it is iff
\* inliers(new->panorama) >= inliers(panorama->new), and the inverse of the
\* panorama->new estimate iff inliers(panorama->new) is strictly larger; equal
\* counts select new->panorama.
C12_TieGoesToN2P ==
  (LastStage \in {"Oriented", "Warped"}) =>
     /\ (in_n2p >= in_p2n) => H_new_to_pano = H_n2p
     /\ (in_p2n > in_n2p) => H_new_to_pano = MatInv(H_p2n)

C12_Witness ==
  /\ pc = "oriented"
  /\ in_n2p = in_p2n /\ in_n2p = 4
  /\ H_n2p.kind = "finite" /\ H_p2n.kind = "finite"
  /\ H_n2p # MatInv(H_p2n)
  /\ H_new_to_pano = H_n2p
\* C13 (as stated): for every detector the matcher is invoked with Hamming
\* distance exactly when the detector's descriptors are binary, and with
\* Euclidean distance exactly when they are floating-point.
C13_DistanceFitsDescriptor ==
  (mpc = "stage_done") =>
     /\ (distType = "HAMMING") <=> (DescriptorType(detector) = "CV_8U")
     /\ (distType = "L2") <=> (DescriptorType(detector) = "CV_32F")

\* The pairs ratioTest is to keep: second distance above 1e-12 and
\* best / second strictly below ratio.
KeptPairs ==
  { i \in 1..Len(knn) :
      /\ ~LeqTiny(knn[i][2].dist)
      /\ RatioCmp(knn[i][1].dist, knn[i][2].dist, ratio) < 0 }

\* C14: ratioTest keeps the best match of a pair iff best.dist / second.dist
\* < ratio strictly, drops every pair whose second distance is <= 1e-12, and
\* returns the kept best matches in input order; with ratio 0.75 the pair
\* (3.0, 4.0) is rejected and the pair (3.0, 4.01) is kept.
C14_RatioTestStrict ==
  (mpc = "ratio_done") =>
     /\ Len(goodM) = Cardinality(KeptPairs)
     /\ \A i \in 1..Len(knn) :
          (i \in KeptPairs) <=> (\E j \in 1..Len(goodM) : goodM[j] = knn[i][1])
     /\ \A j1, j2 \in 1..Len(goodM) :
          j1 < j2 => goodM[j1].queryIdx < goodM[j2].queryIdx
     /\ \A i \in 1..Len(knn) :
          LET kept == \E j \in 1..Len(goodM) : goodM[j] = knn[i][1]
              d1 == knn[i][1].dist
              d2 == knn[i][2].dist
          IN  /\ (ratio = 75 /\ d1 = <<300, -2>> /\ d2 = <<400, -2>>) => ~kept
              /\ (ratio = 75 /\ d1 = <<300, -2>> /\ d2 = <<401, -2>>) => kept
              /\ (d2 \in { <<0, 0>>, <<5, -13>>, <<10, -13>> }) => ~kept

C14_Witness ==
  /\ mpc = "ratio_done" /\ ratio = 75 /\ Len(knn) = 2
  /\ knn[1][1].dist = <<300, -2>> /\ knn[1][2].dist = <<400, -2>>
  /\ knn[2][1].dist = <<300, -2>> /\ knn[2][2].dist = <<401, -2>>
  /\ goodM = <<knn[2][1]>>

\* The distance of row i of descA and row j of descB (rows from 0).
DistAB(i, j) == RowDistance(descA, descB, distType, i, j).d

\* C15: bruteForceMatchKNN returns nothing if k < 2 or a descriptor set is
\* empty; else, when B has at least two rows, one pair per row i of A in row
\* order: the nearest row of B, then the nearest of the remaining rows, with
\* first.dist <= second.dist, different train indices and queryIdx = i.
C15_KnnTwoNearest ==
  (mpc = "knn_done") =>
     IF kArg < 2 \/ DescEmpty(descA) \/ DescEmpty(descB)
     THEN knn = << >>
     ELSE (Len(descB.rows) >= 2) =>
            /\ Len(knn) = Len(descA.rows)
            /\ \A i \in 1..Len(knn) :
                 LET f == knn[i][1]
                     s == knn[i][2]
                     js == 0..(Len(descB.rows) - 1)
                 IN  /\ f.queryIdx = i - 1 /\ s.queryIdx = i - 1
                     /\ f.trainIdx \in js /\ s.trainIdx \in js
                     /\ f.trainIdx # s.trainIdx
                     /\ f.dist = <<DistAB(i - 1, f.trainIdx), 0>>
                     /\ s.dist = <<DistAB(i - 1, s.trainIdx), 0>>
                     /\ \A j \in js : f.dist[1] <= DistAB(i - 1, j)
                     /\ \A j \in js \ {f.trainIdx} : s.dist[1] <= DistAB(i - 1, j)
                     /\ f.dist[1] <= s.dist[1]

C15_Witness ==
  /\ mpc = "knn_done" /\ kArg = 2 /\ distType = "L2"
  /\ Len(descA.rows) = 2 /\ Len(descB.rows) = 3
  /\ Len(knn) = 2
  /\ knn[1][1].trainIdx = 2 /\ knn[1][2].trainIdx = 1
  /\ knn[1][1].dist[1] < knn[1][2].dist[1]

\* C16: bruteForceMatch returns, for non-empty A and B, one match per row of
\* A in row order, whose trainIdx is the lowest row of B at minimum distance
\* and whose dist is that minimum; an empty A or B gives an empty list and no
\* error.
C16_NearestNeighbour ==
  /\ (mpc = "nn_done") =>
        IF DescEmpty(descA) \/ DescEmpty(descB)
        THEN nn = << >>
        ELSE /\ Len(nn) = Len(descA.rows)
             /\ \A i \in 1..Len(nn) :
                  LET js == 0..(Len(descB.rows) - 1)
                  IN  /\ nn[i].queryIdx = i - 1
                      /\ nn[i].trainIdx \in js
                      /\ nn[i].dist = <<DistAB(i - 1, nn[i].trainIdx), 0>>
                      /\ \A j \in js : nn[i].dist[1] <= DistAB(i - 1, j)
                      /\ \A j \in js : j < nn[i].trainIdx => nn[i].dist[1] < DistAB(i - 1, j)
  /\ (mpc = "assert" /\ kArg = 0) => (~DescEmpty(descA) /\ ~DescEmpty(descB))

C16_Witness ==
  /\ mpc = "nn_done" /\ distType = "L2"
  /\ Len(descA.rows) = 1 /\ Len(descB.rows) = 3
  /\ descB.rows[1] = descB.rows[3] /\ descB.rows[1] # descB.rows[2]
  /\ nn[1].trainIdx = 0
  /\ DistAB(0, 0) < DistAB(0, 1)
\* C17: euclideanDistance and hammingDistance on rows of different column
\* count or element type, and computeHomographyDLT and ransacHomography on
\* point arrays of different lengths, end in an assertion failure and produce
\* no value.
C17_ShapeViolationsAssert ==
  /\ (mpc \notin {"idle", "dist"}
        /\ (descA.cols # descB.cols \/ descA.type # descB.type)) =>
       (mpc = "assert" /\ dres = 0)
  /\ (rpc \notin {"idle", "dlt", "entry"} /\ Len(srcPts) # Len(dstPts)) =>
       (rpc = "assert" /\ retH = EmptyH /\ inlierMask = << >>)

C17_Witness ==
  /\ mpc = "assert" /\ distType = "L2"
  /\ descA.type = descB.type
  /\ descA.cols = 1 /\ descB.cols = 2
  /\ descA.rows[1] = <<3>> /\ descB.rows[1] = <<3, 4>>
\* The corners of the new image through the chosen homography (lines 311-328).
WarpedCorners ==
  LET im == imgs[img_i + 1]
      M == H_new_to_pano.m
  IN  { perspectiveTransform(<<0, 0>>, M), perspectiveTransform(<<im.w, 0>>, M),
        perspectiveTransform(<<im.w, im.h>>, M), perspectiveTransform(<<0, im.h>>, M) }

\* C18 (as stated): at every composition step tx and ty are nonnegative, tx > 0
\* only if a warped corner has x < 0, ty > 0 only if one has y < 0, and
\* outW >= tx + panorama width and outH >= ty + panorama height, so that the
\* old panorama placed at (tx, ty) lies inside the new canvas.
C18_PanoInsideCanvas ==
  [][ (pc = "oriented" /\ pc' # "oriented") =>
        LET g == CanvasGrowth(pano, imgs[img_i + 1], H_new_to_pano.m)
        IN  /\ tx' = g.tx /\ ty' = g.ty
            /\ tx' >= 0 /\ ty' >= 0
            /\ (tx' > 0) => (\E c \in WarpedCorners : RatLt(c[1], <<0, 1>>))
            /\ (ty' > 0) => (\E c \in WarpedCorners : RatLt(c[2], <<0, 1>>))
            /\ g.outW >= tx' + pano.w
            /\ g.outH >= ty' + pano.h
            /\ pc' = "warped"
            /\ canvas'.w = g.outW /\ canvas'.h = g.outH
            /\ \A xy \in Pixels(pano.w, pano.h) :
                 canvas'.px[<<xy[1] + tx', xy[2] + ty'>>] = pano.px[xy] ]_vars

\* C19 (as stated): the validity mask used for blending marks a pixel of the
\* warped image valid iff the pixel's luminance is nonzero.
C19_MaskIffNonzero ==
  (pc = "warped") =>
     \A xy \in Pixels(warped.w, warped.h) :
        (ThresholdMask(warped).px[xy] # 0) <=> (warped.px[xy] # 0)

\* The canvas restricted to the smallest rectangle holding every pixel of
\* nonzero luminance.
NonzeroBox(img) ==
  LET pts == { xy \in Pixels(img.w, img.h) : img.px[xy] # 0 }
      x0 == CHOOSE x \in { xy[1] : xy \in pts } : \A xy \in pts : x <= xy[1]
      x1 == CHOOSE x \in { xy[1] : xy \in pts } : \A xy \in pts : x >= xy[1]
      y0 == CHOOSE y \in { xy[2] : xy \in pts } : \A xy \in pts : y <= xy[2]
      y1 == CHOOSE y \in { xy[2] : xy \in pts } : \A xy \in pts : y >= xy[2]
  IN  [w |-> x1 - x0 + 1, h |-> y1 - y0 + 1,
       px |-> [xy \in Pixels(x1 - x0 + 1, y1 - y0 + 1) |->
                 img.px[<<xy[1] + x0, xy[2] + y0>>]]]

\* C20 (as stated): after all images are consumed, auto-crop returns the
\* canvas restricted to the smallest axis-aligned rectangle containing every
\* pixel of nonzero luminance, so no fully black border row or column remains.
C20_CropToNonzeroBox ==
  [][ (pc = "loop" /\ pc' = "cropped"
         /\ \E xy \in Pixels(pano.w, pano.h) : pano.px[xy] # 0) =>
        pano' = NonzeroBox(pano) ]_vars
\* C21: blendOverlay on two images of one size returns, pixel for pixel, the
\* top pixel where the mask is nonzero and the base pixel where it is zero;
\* with an empty mask it returns a full copy of top; the inputs are not
\* modified.
C21_OverlaySelectsByMask ==
  [][ (opc = "overlay" /\ opc' = "overlay_done") =>
        /\ imgOut'.w = imgA.w /\ imgOut'.h = imgA.h
        /\ \A xy \in Pixels(imgA.w, imgA.h) :
             imgOut'.px[xy] =
               IF imgM = EmptyMask THEN imgB.px[xy]
               ELSE IF imgM.px[xy] # 0 THEN imgB.px[xy]
               ELSE imgA.px[xy]
        /\ imgA' = imgA /\ imgB' = imgB /\ imgM' = imgM ]_vars

C21_Witness ==
  /\ opc = "overlay_done"
  /\ imgM # EmptyMask
  /\ imgM.px[<<0, 0>>] = 1 /\ imgM.px[<<1, 0>>] = 0
  /\ imgA.px[<<0, 0>>] # imgB.px[<<0, 0>>]
  /\ imgA.px[<<1, 0>>] # imgB.px[<<1, 0>>]
  /\ imgOut.px[<<0, 0>>] = imgB.px[<<0, 0>>]
  /\ imgOut.px[<<1, 0>>] = imgA.px[<<1, 0>>]

\* C24: blendFeather(base, top, w) and blendFeather(top, base, inverted w)
\* agree at every pixel up to the rounding of the 8-bit result (exactly for
\* an 8-bit mask, where no value falls on a rounding tie).
C24_FeatherSymmetric ==
  (opc = "feather_done") =>
     /\ imgOut.w = imgOut2.w /\ imgOut.h = imgOut2.h
     /\ \A xy \in Pixels(imgOut.w, imgOut.h) :
          /\ Abs(imgOut.px[xy] - imgOut2.px[xy]) <= 1
          /\ (imgM.type = "CV_8U") => imgOut.px[xy] = imgOut2.px[xy]

C24_Witness ==
  /\ opc = "feather_done"
  /\ imgM.type = "CV_8U"
  /\ imgM.px[<<0, 0>>] = 127 /\ imgM.px[<<1, 0>>] = 1
  /\ imgA.px[<<0, 0>>] = 0 /\ imgB.px[<<0, 0>>] = 255
  /\ imgA.px[<<1, 0>>] = 255 /\ imgB.px[<<1, 0>>] = 1
  /\ imgOut.px[<<0, 0>>] = 127 /\ imgOut2.px[<<0, 0>>] = 127
  /\ imgOut.px[<<1, 0>>] = 254 /\ imgOut2.px[<<1, 0>>] = 254
\* C22: warpPerspectiveCustom with the identity homography and an output
\* size equal to the source size returns the source, pixel for pixel.
C22_IdentityWarp ==
  (opc = "warp_done"
     /\ opH.m \in { IdentityM, <<2, 0, 0, 0, 2, 0, 0, 0, 2>> }
     /\ opW = imgA.w /\ opHt = imgA.h) =>
        imgOut = imgA

C22_Witness ==
  /\ opc = "warp_done" /\ opH.m = IdentityM
  /\ opW = imgA.w /\ opHt = imgA.h
  /\ imgOut = imgA
  /\ imgA.px[<<0, 0>>] = 255 /\ imgA.px[<<1, 0>>] = 1 /\ imgA.px[<<0, 1>>] = 0
  /\ imgA.px[<<1, 1>>] = 255

\* What the source pixel (x, y) adds to a sample with the weight wgt: nothing
\* when it lies outside the source.
Contribution(x, y, wgt) ==
  IF x >= 0 /\ x < imgA.w /\ y >= 0 /\ y < imgA.h THEN imgA.px[<<x, y>>] * wgt ELSE 0

\* C23: in warpPerspectiveCustom a destination pixel whose inverse-mapped
\* coordinate (sx, sy) is outside -1 <= sx < width, -1 <= sy < height stays 0;
\* inside the bound the four bilinear neighbours are blended with a neighbour
\* outside the source adding 0; the output has exactly the requested size.
C23_OutsideStaysZero ==
  (opc = "warp_done") =>
     /\ imgOut.w = opW /\ imgOut.h = opHt
     /\ DOMAIN imgOut.px = Pixels(opW, opHt)
     /\ \A xy \in Pixels(opW, opHt) :
          LET q == Apply(MatInvM(opH.m), xy)
              s == IF q[3] < 0 THEN -1 ELSE 1
              d == s * q[3]
              nx == s * q[1]
              ny == s * q[2]
              x0 == nx \div d
              y0 == ny \div d
              ax == nx - x0 * d
              ay == ny - y0 * d
          IN  IF d = 0 \/ nx < -d \/ ny < -d \/ nx >= imgA.w * d \/ ny >= imgA.h * d
              THEN imgOut.px[xy] = 0
              ELSE imgOut.px[xy] =
                     SaturateRound(  Contribution(x0, y0, (d - ax) * (d - ay))
                                   + Contribution(x0 + 1, y0, ax * (d - ay))
                                   + Contribution(x0, y0 + 1, (d - ax) * ay)
                                   + Contribution(x0 + 1, y0 + 1, ax * ay),
                                   d * d)

C23_Witness ==
  /\ opc = "warp_done"
  /\ opH.m = <<2, 0, 1, 0, 2, 1, 0, 0, 2>>
  /\ opW = imgA.w + 1 /\ opHt = 3
  /\ \A xy \in Pixels(imgA.w, imgA.h) : imgA.px[xy] = 255
  /\ imgOut.px[<<0, 0>>] = 64
  /\ imgOut.px[<<1, 0>>] = 128
  /\ imgOut.px[<<1, 1>>] = 255
  /\ imgOut.px[<<0, 2>>] = 64
\* The 100x100 panorama and the 100x100 new image shifted by 40 pixels along
\* x (60 pixels of overlap), after the canvas-growth step.
ShiftedPair ==
  /\ opc = "canvas_done"
  /\ imgA = Blank(100, 100) /\ imgB = Blank(100, 100)
  /\ opH.m \in { TransM(40, 0), TransM(-40, 0) }

\* C25 (amended): for a 100x100 panorama and a 100x100 new image shifted by 40
\* pixels (60 pixels of overlap) the canvas is exactly 140 pixels wide and 100
\* high: the panorama's width plus the 40 new columns.
C25_CanvasWidth140 ==
  ShiftedPair =>
    /\ grow.outW = 140 /\ grow.outH = 100
    /\ grow.tx = (IF opH.m = TransM(-40, 0) THEN 40 ELSE 0) /\ grow.ty = 0

C25_Witness ==
  /\ ShiftedPair /\ opH.m = TransM(40, 0)
  /\ grow = [tx |-> 0, ty |-> 0, outW |-> 140, outH |-> 100]

\* C25 (as stated): for that pair the canvas is about 160 pixels wide.
C25_CanvasWidthAbout160 ==
  ShiftedPair => (grow.outW >= 150 /\ grow.outW <= 170)

\* C29 (as stated): after the translation (tx, ty) is prepended, every
\* transformed corner of the new image has 0 <= x <= outW and 0 <= y <= outH,
\* for every finite homography.
C29_CornersInsideCanvas ==
  (opc = "canvas_done") =>
     \A c \in { <<0, 0>>, <<imgB.w, 0>>, <<imgB.w, imgB.h>>, <<0, imgB.h>> } :
        LET q == perspectiveTransform(c, opH.m)
            x == <<q[1][1] + grow.tx * q[1][2], q[1][2]>>
            y == <<q[2][1] + grow.ty * q[2][2], q[2][2]>>
        IN  /\ ~RatLt(x, <<0, 1>>) /\ ~RatLt(<<grow.outW, 1>>, x)
            /\ ~RatLt(y, <<0, 1>>) /\ ~RatLt(<<grow.outH, 1>>, y)
\* C26: when detection finds no keypoint in the panorama or in the new image,
\* matching keeps no pair, both ransacHomography calls hand back the empty
\* matrix, and stitchImages returns the panorama so far; it does not throw.
C26_NoKeypointsReturnsPano ==
  [][ (pc = "matched" /\ (kpsA = 0 \/ kpsB = 0)) =>
        /\ good = 0
        /\ H_p2n' = EmptyH /\ H_n2p' = EmptyH
        /\ pc' = "done"
        /\ ret' = pano /\ pano' = pano ]_vars

C26_Witness ==
  /\ pc = "done" /\ img_i = 2
  /\ kpsA = MaxCorr /\ kpsB = 0 /\ good = 0
  /\ H_p2n = EmptyH /\ H_n2p = EmptyH
  /\ ret = pano /\ pano # imgs[1]
  /\ ransacIter = 1
\* The entry f may follow the entry e in the log of stages: within a pair
\* the stages come in the order of the loop body, and after a blend comes
\* the next image or the crop.
Follows(e, f) ==
  CASE e[1] = "Start" -> (f[1] = "Cropped" \/ f = <<"Matched", 1>>)
    [] e[1] = "Matched" -> f = <<"Estimated", e[2]>>
    [] e[1] = "Estimated" -> f = <<"Oriented", e[2]>>
    [] e[1] = "Oriented" -> f = <<"Warped", e[2]>>
    [] e[1] = "Warped" -> f = <<"Blended", e[2]>>
    [] e[1] = "Blended" -> (f[1] = "Cropped" \/ f = <<"Matched", e[2] + 1>>)
    [] OTHER -> FALSE

\* C28: stitchImages starts with the panorama equal to the first image and
\* takes the remaining images strictly in input order, each at most once; for
\* each image the stages run in the order match, estimate, choose direction,
\* warp, blend; and the panorama is replaced only by the blend that completes
\* a pair (and by the final crop): it is the first image until the first
\* blend, it is unchanged while a pair is being worked on, and an abandoned
\* pair returns it as it was when the pair was taken up.
C28_InOrderAndAtomic ==
  (log # << >> /\ imgs # << >>) =>
     LET last == log[Len(log)]
     IN  /\ log[1] = <<"Start", 0>>
         /\ \A n \in 1..(Len(log) - 1) : Follows(log[n], log[n + 1])
         /\ \A n \in 1..Len(log) :
              log[n][1] = "Matched" => log[n][2] < Len(imgs)
         /\ img_i = (IF last[1] = "Start" THEN 1
                     ELSE IF last[1] = "Blended" THEN last[2] + 1 ELSE last[2])
         /\ (last[2] <= 1 /\ last[1] \notin {"Blended", "Cropped"}) => pano = imgs[1]
         /\ (pc \in {"matched", "estimated", "oriented", "warped"}) => pano = panoAtStart
         /\ (pc = "done" /\ last[1] \in {"Estimated", "Oriented"}) =>
               (pano = panoAtStart /\ ret = panoAtStart)

C28_Witness ==
  /\ pc = "done" /\ Len(imgs) = 3 /\ img_i = 3
  /\ imgs[1] # imgs[2] /\ imgs[2] # imgs[3]
  /\ \E a, b \in 1..Len(log) :
       a < b /\ log[a] = <<"Blended", 1>> /\ log[b] = <<"Blended", 2>>
  /\ pano # imgs[1] /\ ret = pano

\* C27: for a homography H whose bottom-right entry can be scaled to 1 and at
\* least 4 points no three of which are collinear, the call
\* computeHomographyDLT(pts, project(H, pts)) returns, without throwing, the
\* matrix H scaled so that its bottom-right entry is 1.
C27_RoundTrip ==
  (opc = "roundtrip" /\ rpc \in {"dlt_done", "assert"} /\ opH.m[9] # 0) =>
     /\ rpc = "dlt_done"
     /\ retH = FiniteH(Canon(opH.m))

C27_Witness ==
  /\ opc = "roundtrip" /\ rpc = "dlt_done"
  /\ opH.m = <<4, 0, 0, 0, 4, 0, 2, 0, 2>>
  /\ Len(srcPts) = 4 /\ dstPts # srcPts
  /\ retH = FiniteH(<<2, 0, 0, 0, 2, 0, 1, 0, 1>>)
\* The sum of the integers held in a sequence: each value times the number of
\* places that hold it.
RECURSIVE SumOver(_, _)
SumOver(S, dq) ==
  IF S = {} THEN 0
  ELSE LET v == CHOOSE x \in S : TRUE
       IN  v * Cardinality({ n \in DOMAIN dq : dq[n] = v }) + SumOver(S \ {v}, dq)

FlagSum(dq) == SumOver({ dq[n] : n \in DOMAIN dq }, dq)

\* The exact sum of the doubles held in a deque.
TimeSum(dq) ==
  << FlagSum([n \in DOMAIN dq |-> dq[n][1]]), FlagSum([n \in DOMAIN dq |-> dq[n][2]]) >>

\* The five deques of an entry have one length, at most kMaxSamples.
DequesAligned(st) ==
  /\ Len(st.frameTimesMs) <= kMaxSamples
  /\ Len(st.renderTimesMs) = Len(st.frameTimesMs)
  /\ Len(st.cpuTimesMs) = Len(st.frameTimesMs)
  /\ Len(st.gpuUploadTimesMs) = Len(st.frameTimesMs)
  /\ Len(st.duplicateFlags) = Len(st.frameTimesMs)

\* C30 (as stated): for every entry of the tracker, after any sequence of
\* pushSample, resetSamples and clear, the five deques have the same length,
\* at most kMaxSamples, and sumDuplicateFlags and each running time sum equal
\* the sum of the values held in the corresponding deque.
C30_SumsMatchDeques ==
  \A key \in DOMAIN dataset :
     LET st == dataset[key]
     IN  /\ DequesAligned(st)
         /\ st.sumDuplicateFlags = FlagSum(st.duplicateFlags)
         /\ st.sumFrameMs = TimeSum(st.frameTimesMs)
         /\ st.sumRenderMs = TimeSum(st.renderTimesMs)
         /\ st.sumCpuMs = TimeSum(st.cpuTimesMs)
         /\ st.sumGpuUploadMs = TimeSum(st.gpuUploadTimesMs)
====
